---- MODULE Spec2Model ----
(***************************************************************************)
(* Model of the moonshine session manager (src/src/session/manager.rs)     *)
(* and of the life cycle of the video stream worker it indirectly owns     *)
(* (src/src/session/stream/video/mod.rs).                                  *)
(*                                                                         *)
(* The manager is one task that selects between its command channel and    *)
(* the shutdown signal it currently holds.  Every handler of the select    *)
(* is one action.  The operations of the Session type (session/mod.rs)     *)
(* are the Session* operators; they follow the specification's             *)
(* description of the session (sections 3, 4.3 and 5).                     *)
(*                                                                         *)
(* The RTSP server (src/moonshine/src/rtsp.rs) is modelled by the steps of *)
(* handle_connection for one connection at a time, with the request        *)
(* handlers as operators over parsed messages; the pairing front end       *)
(* (src/src/webserver/pairing.rs) by one action per handler, with the      *)
(* client registry following the specification (sections 4.1 and 4.7).     *)
(*                                                                         *)
(* One video worker is modelled in detail as well: the command loop of     *)
(* VideoStreamInner::run, the socket task with the packet channel, and     *)
(* the capture and encode threads, which follow the specification          *)
(* (sections 4.5 and 5).                                                   *)
(***************************************************************************)
EXTENDS Integers, Sequences, FiniteSets, TLC

\* ------------------------------------------------------------------ bounds

\* Total number of commands the callers enqueue during one run.
MaxCmds == 5

\* Number of commands the callers leave pending in the channel at once.
MaxPending == 2

\* Number of connections the RTSP server accepts during one run.
MaxConns == 2

\* Number of commands sent to one video worker.
MaxVideoCmds == 3

\* Number of packets the encoder of one video worker produces.
MaxPackets == 3

\* Capacity of the packet channel between encoder and socket task:
\* mpsc::channel::<Vec<u8>>(1024), scaled down so that it fills.
PacketCapacity == 2

\* Capacity of the command channel of a video worker: mpsc::channel(10).
VideoCommandCapacity == 10

\* Number of reads a request is split over.
MaxReads == 3

\* Number of /pair requests the web server receives during one run.
MaxPairRequests == 3

\* Capacity of the manager's command channel: mpsc::channel(10).
ChannelCapacity == 10

\* ------------------------------------------------------------------ values

\* Option<T>: None is the empty tuple, Some(x) the one-element tuple.
None == <<>>
Some(x) == <<x>>
IsSome(o) == o # None
Unwrap(o) == o[1]

\* The SessionContexts callers pass to InitializeSession.
SessionContexts == {"c1", "c2"}

\* The (video, audio) stream contexts callers pass to SetStreamContext.
StreamContexts == {<<"v1", "a1">>, <<"v2", "a2">>}

\* The keys callers pass to UpdateKeys; "k0" is the key a session starts with.
SessionKeys == {"k1"}

\* SessionManagerCommand, with the position at which it entered the channel.
Command(type, seq, video, audio, context, keys) ==
    [type |-> type, seq |-> seq, video |-> video, audio |-> audio,
     context |-> context, keys |-> keys]

NoCommand == Command("None", 0, "-", "-", "-", "-")

\* The commands a caller can build (SessionManager's public methods).
Commands(seq) ==
    {Command("SetStreamContext", seq, p[1], p[2], "-", "-") : p \in StreamContexts}
    \cup {Command("GetSessionContext", seq, "-", "-", "-", "-")}
    \cup {Command("InitializeSession", seq, "-", "-", c, "-") : c \in SessionContexts}
    \cup {Command("StartSession", seq, "-", "-", "-", "-")}
    \cup {Command("StopSession", seq, "-", "-", "-", "-")}
    \cup {Command("UpdateKeys", seq, "-", "-", "-", k) : k \in SessionKeys}

VARIABLES
    command_queue,          \* the mpsc channel command_tx -> command_rx
    handles_open,           \* some SessionManager handle (command_tx) is alive
    manager_alive,          \* SessionManagerInner::run has not returned
    shutdown_token_held,    \* the process-wide TriggerShutdownToken is held
    session,                \* SessionManagerInner.session
    video_stream_context,   \* SessionManagerInner.video_stream_context
    audio_stream_context,   \* SessionManagerInner.audio_stream_context
    stop_signal,            \* the ShutdownManager of run, by generation
    triggered,              \* that ShutdownManager has been triggered
    workers,                \* the spawned VideoStreamInner::run tasks
    sessions,               \* the Session objects constructed and not dropped
    sent,                   \* number of commands enqueued so far
    reply,                  \* what the last GetSessionContext sent back
    lastCmd,                \* the command processed last
    lastOutcome,            \* how it ended: "ok", "warn" (rejected), "err"
    created_ctx,            \* per session id, the context it was created with
    triggered_by,           \* id of the session whose worker triggered stop_signal
    failed,                 \* ids of the sessions whose video worker hit a resource error
    context_session         \* id of the session that existed when the stream contexts were stored (0: none)

\* The RTSP server (moonshine/src/rtsp.rs).
VARIABLES
    conn,                   \* the connection handle_connection is serving
    accepted,               \* number of connections accepted so far
    play_ok                 \* seq of the StartSession of each PLAY answered 200

rtspVars == <<conn, accepted, play_ok>>

\* The pairing front end (webserver/pairing.rs) and the client registry.
VARIABLES
    pending,                \* the registry's PendingClient per unique_id
    clients,                \* the unique_ids of the registry's paired clients
    pair_waiting,           \* the get_server_cert handlers blocked on a PIN
    pin_notified,           \* the PIN notifiers that have been notified
    pair_last,              \* the last pair request with its response
    pair_count              \* number of pair requests received

pairVars == <<pending, clients, pair_waiting, pin_notified, pair_last,
              pair_count>>

\* One video worker in detail (session/stream/video/mod.rs).
VARIABLES
    command_rx,             \* the command channel of the VideoStream
    commands_sent,          \* number of commands sent to it so far
    command_tx_open,        \* some VideoStream handle (command_tx) is alive
    stop_triggered,         \* the stop_signal given to VideoStream::new is triggered
    run_pc,                 \* where VideoStreamInner::run is
    started_streaming,      \* run's started_streaming
    capture_threads,        \* number of running video-capture threads
    encode_threads,         \* number of running video-encode threads
    encoder_holding,        \* the packet the encoder waits to send, if any
    packet_rx,              \* the packet channel packet_tx -> packet_rx
    packets_made,           \* number of packets the encoder produced so far
    socket_task,            \* the socket task: "none", "running", "stopped"
    client_address,         \* the socket task's client_address
    last_datagram,          \* the datagram recv_from returned last
    last_sent,              \* the packet and address of the last send_to
    idr_sent,               \* number of sends on the IDR broadcast channel
    idr_next,               \* position of the encoder's receiver in it
    last_frame_idr          \* the frame encoded last was an IDR frame

videoVars == <<command_rx, commands_sent, command_tx_open, stop_triggered,
               run_pc, started_streaming, capture_threads, encode_threads,
               encoder_holding, packet_rx, packets_made, socket_task,
               client_address, last_datagram, last_sent, idr_sent, idr_next,
               last_frame_idr>>

\* The read loop of handle_connection over bytes (moonshine/src/rtsp.rs).
VARIABLES
    wire,                   \* the bytes of the connection not read yet
    received,               \* all the bytes read so far
    read_sizes,             \* bytes_read of every read so far
    message_buffer,         \* handle_connection's message_buffer
    parsed_message,         \* the message Message::parse returned
    read_pc                 \* where the read loop is, or how it ended

readVars == <<wire, received, read_sizes, message_buffer, parsed_message,
              read_pc>>

\* The session manager, its callers and the video workers.
coreVars == <<command_queue, handles_open, manager_alive, shutdown_token_held,
              session, video_stream_context, audio_stream_context,
              stop_signal, triggered, workers, sessions, sent, reply, lastCmd,
              lastOutcome, created_ctx, triggered_by, failed,
              context_session>>

vars == <<command_queue, handles_open, manager_alive, shutdown_token_held,
          session, video_stream_context, audio_stream_context, stop_signal,
          triggered, workers, sessions, sent, reply, lastCmd, lastOutcome,
          created_ctx, triggered_by, failed, context_session, conn,
          accepted, play_ok,
          pending, clients, pair_waiting, pin_notified, pair_last,
          pair_count, command_rx, commands_sent, command_tx_open,
          stop_triggered, run_pc, started_streaming, capture_threads,
          encode_threads, encoder_holding, packet_rx, packets_made,
          socket_task, client_address, last_datagram, last_sent, idr_sent,
          idr_next, last_frame_idr, wire, received, read_sizes,
          message_buffer, parsed_message, read_pc>>

\* What the handlers that only answer or reject leave alone.
managerState == <<session, video_stream_context, audio_stream_context,
                  stop_signal, triggered, workers, sessions, created_ctx,
                  triggered_by, failed, context_session>>

\* ------------------------------------------------------------------ Session
\* The operations of Session (session/mod.rs), as the specification
\* describes them.

\* Session::new(config, context, enet, stop_signal): a session that is not
\* running, holding the context and a clone of the given shutdown signal.
SessionNew(id, context, signal) ==
    [id |-> id, context |-> context, running |-> FALSE, keys |-> "k0",
     stop_signal |-> signal]

\* Session::get_context
SessionGetContext(s) == s.context

\* Session::is_running
SessionIsRunning(s) == s.running

\* Session::start_stream: on success the session is running.
SessionStartStream(s, ok) == IF ok THEN [s EXCEPT !.running = TRUE] ELSE s

\* Session::update_keys: on success the session holds the new keys.
SessionUpdateKeys(s, keys, ok) == IF ok THEN [s EXCEPT !.keys = keys] ELSE s

\* Session::stop_stream: the workers of the session are signalled to stop
\* (their command channels are closed).
SessionStopStream(s, ws) ==
    {IF w.sid = s.id THEN [w EXCEPT !.closed = TRUE] ELSE w : w \in ws}

\* ------------------------------------------------------------------ video worker

\* VideoStream::new: spawns VideoStreamInner::run wrapped in
\* wrap_trigger_shutdown and wrap_cancel of the given stop_signal.
VideoStreamNew(sid, signal) ==
    [sid |-> sid, gen |-> signal, pc |-> "bind", started |-> FALSE,
     closed |-> FALSE]

\* The shutdown signal a worker holds has been triggered.  The manager
\* leaves a generation behind only after it was triggered.
SignalTriggered(gen) == gen < stop_signal \/ (gen = stop_signal /\ triggered)

\* wrap_trigger_shutdown without its effect: the end of run triggers nothing.
WrapTriggerShutdown_Never(w) == UNCHANGED <<triggered, triggered_by>>

\* wrap_trigger_shutdown: when the wrapped run ends, for whatever reason,
\* the stop_signal it was given is triggered (the first trigger wins).
WrapTriggerShutdown(w) ==
    IF w.gen = stop_signal /\ ~triggered
    THEN triggered' = TRUE /\ triggered_by' = w.sid
    ELSE UNCHANGED <<triggered, triggered_by>>

workerFrame == <<command_queue, handles_open, manager_alive,
                 shutdown_token_held, session, video_stream_context,
                 audio_stream_context, stop_signal, sessions, sent, reply,
                 lastCmd, lastOutcome, created_ctx, context_session>>

\* run: UdpSocket::bind and set_tos succeed, the command loop is entered.
VideoBindOk(w) ==
    /\ w \in workers /\ w.pc = "bind" /\ ~SignalTriggered(w.gen)
    /\ workers' = (workers \ {w}) \cup {[w EXCEPT !.pc = "loop"]}
    /\ UNCHANGED <<triggered, triggered_by, failed>>
    /\ UNCHANGED workerFrame

\* run: UdpSocket::bind or set_tos fails, run returns the error.
VideoBindError(w) ==
    /\ w \in workers /\ w.pc = "bind" /\ ~SignalTriggered(w.gen)
    /\ workers' = workers \ {w}
    /\ failed' = failed \cup {w.sid}
    /\ WrapTriggerShutdown(w)
    /\ UNCHANGED workerFrame

\* run: a Start command is processed and the capture and encode threads
\* are started.
VideoStartOk(w) ==
    /\ w \in workers /\ w.pc = "loop" /\ ~w.started /\ ~w.closed
    /\ ~SignalTriggered(w.gen)
    /\ workers' = (workers \ {w}) \cup {[w EXCEPT !.started = TRUE]}
    /\ UNCHANGED <<triggered, triggered_by, failed>>
    /\ UNCHANGED workerFrame

\* run: a Start command is processed and CUDA, the capturer, the encoder or
\* a frame cannot be initialised: run returns the error.
VideoStartError(w) ==
    /\ w \in workers /\ w.pc = "loop" /\ ~w.started /\ ~w.closed
    /\ ~SignalTriggered(w.gen)
    /\ workers' = workers \ {w}
    /\ failed' = failed \cup {w.sid}
    /\ WrapTriggerShutdown(w)
    /\ UNCHANGED workerFrame

\* run: command_rx.recv() returns None once every VideoStream handle is
\* gone; run returns Ok(()).
VideoChannelClosed(w) ==
    /\ w \in workers /\ w.pc = "loop" /\ w.closed
    /\ ~SignalTriggered(w.gen)
    /\ workers' = workers \ {w}
    /\ WrapTriggerShutdown(w)
    /\ UNCHANGED failed
    /\ UNCHANGED workerFrame

\* wrap_cancel: the stop_signal was triggered, run is dropped where it is.
VideoCancelled(w) ==
    /\ w \in workers /\ SignalTriggered(w.gen)
    /\ workers' = workers \ {w}
    /\ UNCHANGED <<triggered, triggered_by, failed>>
    /\ UNCHANGED workerFrame

\* The control stream of the running session receives TERMINATION from the
\* client and triggers the session's shutdown signal (specification,
\* section 4.4).
ControlTermination ==
    /\ IsSome(session)
    /\ SessionIsRunning(Unwrap(session))
    /\ ~triggered
    /\ triggered' = TRUE
    /\ triggered_by' = Unwrap(session).id
    /\ UNCHANGED <<workers, failed>>
    /\ UNCHANGED workerFrame

\* ------------------------------------------------------------------ callers

\* SessionManager::set_stream_context, get_session_context,
\* initialize_session, start_session, stop_session, update_keys: each sends
\* one command, and waits while the channel is full.
Send(command) ==
    /\ handles_open
    /\ sent < MaxCmds
    /\ Len(command_queue) < MaxPending
    /\ Len(command_queue) < ChannelCapacity
    /\ command.seq = sent + 1
    /\ command_queue' = Append(command_queue, command)
    /\ sent' = sent + 1
    /\ UNCHANGED <<handles_open, manager_alive, shutdown_token_held, reply,
                   lastCmd, lastOutcome>>
    /\ UNCHANGED managerState

\* The last clone of the SessionManager handle is dropped.
DropHandles ==
    /\ handles_open
    /\ handles_open' = FALSE
    /\ UNCHANGED <<command_queue, manager_alive, shutdown_token_held, sent,
                   reply, lastCmd, lastOutcome>>
    /\ UNCHANGED managerState

\* ------------------------------------------------------------------ manager

\* command_rx.recv() taking the newest command instead of the oldest.
NextCommand_Newest(q) == q[Len(q)]

\* command_rx.recv(): the oldest command of the channel.
NextCommand(q) == Head(q)

\* The channel after recv() took NextCommand.
Remaining(q) ==
    IF NextCommand(q) = Head(q) THEN Tail(q) ELSE SubSeq(q, 1, Len(q) - 1)

\* The manager is at its select and recv() yields a command of this type.
Receives(type) ==
    /\ manager_alive
    /\ command_queue # <<>>
    /\ NextCommand(command_queue).type = type

\* What every handler does to the channel and the record of the last command.
Processed(outcome) ==
    /\ lastCmd' = NextCommand(command_queue)
    /\ lastOutcome' = outcome
    /\ command_queue' = Remaining(command_queue)
    /\ UNCHANGED <<handles_open, manager_alive, shutdown_token_held, sent>>

\* SetStreamContext storing without looking at the session.
SetStreamContextRejected_Never(s) == FALSE

\* SetStreamContext: `if self.session.is_none()`.
SetStreamContextRejected(s) == s = None

HandleSetStreamContext ==
    /\ Receives("SetStreamContext")
    /\ LET command == NextCommand(command_queue) IN
       IF SetStreamContextRejected(session)
       THEN /\ Processed("warn")
            /\ UNCHANGED <<video_stream_context, audio_stream_context,
                           context_session>>
       ELSE /\ Processed("ok")
            /\ video_stream_context' = Some(command.video)
            /\ audio_stream_context' = Some(command.audio)
            /\ context_session' = IF IsSome(session) THEN Unwrap(session).id ELSE 0
    /\ UNCHANGED <<session, stop_signal, triggered, workers, sessions, reply,
                   created_ctx, triggered_by, failed>>

\* GetSessionContext answering None whatever the session.
GetSessionContextReply_None(s) == None

\* GetSessionContext: self.session.as_ref().map(|s| Some(s.get_context().clone())).unwrap_or(None)
GetSessionContextReply(s) ==
    IF IsSome(s) THEN Some(SessionGetContext(Unwrap(s))) ELSE None

HandleGetSessionContext ==
    /\ Receives("GetSessionContext")
    /\ Processed("ok")
    /\ reply' = GetSessionContextReply(session)
    /\ UNCHANGED managerState

\* InitializeSession creating a session whatever self.session holds.
InitializeSessionRejected_Never(s) == FALSE

\* InitializeSession: `if self.session.is_some()`.
InitializeSessionRejected(s) == IsSome(s)

\* InitializeSession; Session::new can fail, the error is logged.
HandleInitializeSession ==
    /\ Receives("InitializeSession")
    /\ LET command == NextCommand(command_queue)
           id == Len(created_ctx) + 1 IN
       IF InitializeSessionRejected(session)
       THEN /\ Processed("warn")
            /\ UNCHANGED <<session, sessions, created_ctx>>
       ELSE \E ok \in BOOLEAN :
              IF ok
              THEN /\ Processed("ok")
                   /\ session' = Some(SessionNew(id, command.context, stop_signal))
                   /\ sessions' = sessions \cup {id}
                   /\ created_ctx' = Append(created_ctx, command.context)
              ELSE /\ Processed("err")
                   /\ UNCHANGED <<session, sessions, created_ctx>>
    /\ UNCHANGED <<video_stream_context, audio_stream_context, stop_signal,
                   context_session,
                   triggered, workers, reply, triggered_by, failed>>

\* StartSession starting a session that is already running.
StartSessionAlreadyRunning_Never(s) == FALSE

\* StartSession: `if session.is_running()`.
StartSessionAlreadyRunning(s) == SessionIsRunning(s)

\* StartSession starting without looking at the stream contexts.
StartSessionNoContext_Never(video, audio) == FALSE

\* StartSession: the two `let Some(..) = self.*_stream_context.clone() else`.
StartSessionNoContext(video, audio) == video = None \/ audio = None

\* StartSession; the result of start_stream is discarded.  A stream that
\* starts spawns the video worker with the session's shutdown signal.
HandleStartSession ==
    /\ Receives("StartSession")
    /\ IF session = None
       THEN /\ Processed("warn")
            /\ UNCHANGED <<session, workers>>
       ELSE LET s == Unwrap(session) IN
            IF StartSessionAlreadyRunning(s)
            THEN /\ Processed("warn")
                 /\ UNCHANGED <<session, workers>>
            ELSE IF StartSessionNoContext(video_stream_context, audio_stream_context)
            THEN /\ Processed("warn")
                 /\ UNCHANGED <<session, workers>>
            ELSE \E ok \in BOOLEAN :
                   /\ Processed(IF ok THEN "ok" ELSE "err")
                   /\ session' = Some(SessionStartStream(s, ok))
                   /\ workers' = IF ok
                                 THEN workers \cup {VideoStreamNew(s.id, s.stop_signal)}
                                 ELSE workers
    /\ UNCHANGED <<video_stream_context, audio_stream_context, stop_signal,
                   context_session,
                   triggered, sessions, reply, created_ctx, triggered_by, failed>>

\* StopSession leaving the session in place after stop_stream.
StopSessionResult_Keep(s) == s

\* StopSession: `self.session = None`.
StopSessionResult(s) == None

\* StopSession; the result of stop_stream is discarded.
HandleStopSession ==
    /\ Receives("StopSession")
    /\ IF IsSome(session)
       THEN \E ok \in BOOLEAN :
              /\ Processed(IF ok THEN "ok" ELSE "err")
              /\ workers' = SessionStopStream(Unwrap(session), workers)
              /\ session' = StopSessionResult(session)
              /\ sessions' = IF session' = None
                             THEN sessions \ {Unwrap(session).id}
                             ELSE sessions
       ELSE /\ Processed("ok")
            /\ UNCHANGED <<session, workers, sessions>>
    /\ UNCHANGED <<video_stream_context, audio_stream_context, stop_signal,
                   context_session,
                   triggered, reply, created_ctx, triggered_by, failed>>

\* UpdateKeys; the result of update_keys is discarded.
HandleUpdateKeys ==
    /\ Receives("UpdateKeys")
    /\ IF session = None
       THEN /\ Processed("warn")
            /\ UNCHANGED session
       ELSE \E ok \in BOOLEAN :
              /\ Processed(IF ok THEN "ok" ELSE "err")
              /\ session' = Some(SessionUpdateKeys(Unwrap(session),
                                     NextCommand(command_queue).keys, ok))
    /\ UNCHANGED <<video_stream_context, audio_stream_context, stop_signal,
                   context_session,
                   triggered, workers, sessions, reply, created_ctx,
                   triggered_by, failed>>

\* The shutdown branch forgetting to drop the session.
ShutdownResult_Keep(s) == s

\* The shutdown branch: `self.session = None`.
ShutdownResult(s) == None

\* select: stop_signal.wait_shutdown_triggered() is ready.  The session is
\* dropped and a fresh ShutdownManager replaces the triggered one.
ShutdownTriggered ==
    /\ manager_alive
    /\ triggered
    /\ session' = ShutdownResult(session)
    /\ sessions' = IF session' = None THEN {} ELSE sessions
    /\ stop_signal' = stop_signal + 1
    /\ triggered' = FALSE
    /\ triggered_by' = 0
    /\ UNCHANGED <<command_queue, handles_open, manager_alive,
                   shutdown_token_held, video_stream_context,
                   audio_stream_context, workers, sent, reply, lastCmd,
                   lastOutcome, created_ctx, failed, context_session>>

\* select: command_rx.recv() returns None (the channel is empty and every
\* handle is dropped): run returns, dropping self and with it the session,
\* and the spawned task drops the process-wide shutdown token.
ChannelClosed ==
    /\ manager_alive
    /\ command_queue = <<>>
    /\ ~handles_open
    /\ manager_alive' = FALSE
    /\ shutdown_token_held' = FALSE
    /\ session' = None
    /\ sessions' = {}
    /\ UNCHANGED <<command_queue, handles_open, video_stream_context,
                   audio_stream_context, stop_signal, triggered, workers,
                   sent, reply, lastCmd, lastOutcome, created_ctx,
                   triggered_by, failed, context_session>>

\* ------------------------------------------------------------------ system

\* ------------------------------------------------- text and number values

\* Header and attribute values are strings, modelled as sequences of
\* one-character strings so that parsing and formatting are computed.
Digit == {"0", "1", "2", "3", "4", "5", "6", "7", "8", "9"}

DigitValue(c) ==
    CASE c = "0" -> 0 [] c = "1" -> 1 [] c = "2" -> 2 [] c = "3" -> 3
      [] c = "4" -> 4 [] c = "5" -> 5 [] c = "6" -> 6 [] c = "7" -> 7
      [] c = "8" -> 8 [] c = "9" -> 9

DigitChar(d) == <<"0", "1", "2", "3", "4", "5", "6", "7", "8", "9">>[d + 1]

IsDigits(s) == Len(s) > 0 /\ \A i \in 1..Len(s) : s[i] \in Digit

\* The digits without their leading zeros ("007" -> "7", "000" -> "0").
RECURSIVE StripZeros(_)
StripZeros(s) ==
    IF Len(s) > 1 /\ s[1] = "0" THEN StripZeros(Tail(s)) ELSE s

\* a <= b for two digit strings without leading zeros.
RECURSIVE DigitsLeq(_, _)
DigitsLeq(a, b) ==
    IF Len(a) # Len(b) THEN Len(a) < Len(b)
    ELSE IF Len(a) = 0 THEN TRUE
    ELSE IF a[1] # b[1] THEN DigitValue(a[1]) < DigitValue(b[1])
    ELSE DigitsLeq(Tail(a), Tail(b))

\* The number a digit string denotes (for strings within the integer range).
RECURSIVE DigitsValue(_)
DigitsValue(s) ==
    IF Len(s) = 0 THEN 0
    ELSE DigitsValue(SubSeq(s, 1, Len(s) - 1)) * 10 + DigitValue(s[Len(s)])

\* i32::MAX, -i32::MIN, u32::MAX and usize::MAX (64 bit) as digit strings.
I32MaxDigits == <<"2", "1", "4", "7", "4", "8", "3", "6", "4", "7">>
I32MinDigits == <<"2", "1", "4", "7", "4", "8", "3", "6", "4", "8">>
U32MaxDigits == <<"4", "2", "9", "4", "9", "6", "7", "2", "9", "5">>
UsizeMaxDigits ==
    <<"1", "8", "4", "4", "6", "7", "4", "4", "0", "7",
      "3", "7", "0", "9", "5", "5", "1", "6", "1", "5">>

ParseError == [ok |-> FALSE, value |-> 0]
Parsed(n) == [ok |-> TRUE, value |-> n]

\* <i32 as FromStr>::from_str: an optional sign, then one or more digits,
\* no blanks, Err on overflow.
ParseI32(s) ==
    IF Len(s) = 0 THEN ParseError
    ELSE IF s[1] = "-"
    THEN IF IsDigits(Tail(s)) /\ DigitsLeq(StripZeros(Tail(s)), I32MinDigits)
              /\ StripZeros(Tail(s)) # I32MinDigits
         THEN Parsed(0 - DigitsValue(StripZeros(Tail(s))))
         ELSE IF Tail(s) = I32MinDigits THEN Parsed(0 - 2147483647 - 1)
         ELSE ParseError
    ELSE LET digits == IF s[1] = "+" THEN Tail(s) ELSE s IN
         IF IsDigits(digits) /\ DigitsLeq(StripZeros(digits), I32MaxDigits)
         THEN Parsed(DigitsValue(StripZeros(digits)))
         ELSE ParseError

\* <u32 as FromStr>::from_str and <usize as FromStr>::from_str: an optional
\* "+", then one or more digits, Err on a "-" and on overflow.
ParseUnsigned(s, max) ==
    IF Len(s) = 0 THEN ParseError
    ELSE LET digits == IF s[1] = "+" THEN Tail(s) ELSE s IN
         IF IsDigits(digits) /\ DigitsLeq(StripZeros(digits), max)
         THEN Parsed(DigitsValue(StripZeros(digits)))
         ELSE ParseError

\* <String as FromStr>::from_str never fails.
ParseString(s) == [ok |-> TRUE, value |-> s]

\* str::trim: the string without leading and trailing blanks.
RECURSIVE TrimStart(_)
TrimStart(s) == IF Len(s) > 0 /\ s[1] = " " THEN TrimStart(Tail(s)) ELSE s

RECURSIVE TrimEnd(_)
TrimEnd(s) ==
    IF Len(s) > 0 /\ s[Len(s)] = " "
    THEN TrimEnd(SubSeq(s, 1, Len(s) - 1)) ELSE s

Trim(s) == TrimEnd(TrimStart(s))

\* i32::to_string: the decimal digits, "-" before a negative number.
RECURSIVE NatToString(_)
NatToString(n) ==
    IF n < 10 THEN <<DigitChar(n)>>
    ELSE Append(NatToString(n \div 10), DigitChar(n % 10))

to_string(n) == IF n < 0 THEN <<"-">> \o NatToString(0 - n) ELSE NatToString(n)

\* ------------------------------------------------------------ RTSP messages

\* config.stream.video.port, .audio.port and .control.port (the defaults).
VideoPort == 47998
ControlPort == 47999
AudioPort == 48000

\* The SDP attributes handle_announce_request reads, in the order it reads them.
AttributeNames ==
    <<"x-nv-video[0].clientViewportWd", "x-nv-video[0].clientViewportHt",
      "x-nv-video[0].maxFPS", "x-nv-video[0].packetSize",
      "x-nv-vqos[0].bw.maximumBitrateKbps",
      "x-nv-vqos[0].fec.minRequiredFecPackets", "x-nv-vqos[0].qosTrafficType",
      "x-nv-aqos.packetDuration", "x-nv-aqos.qosTrafficType">>

Attributes == {AttributeNames[i] : i \in 1..Len(AttributeNames)}

\* The attributes whose value is parsed as a number (the others are Strings).
NumericAttributes ==
    Attributes \ {"x-nv-vqos[0].qosTrafficType", "x-nv-aqos.qosTrafficType"}

\* An attribute of an SDP session: absent, present without a value
\* ("a=name"), or present with a value ("a=name:value").
Absent == [state |-> "absent", value |-> <<>>]
NoValue == [state |-> "novalue", value |-> <<>>]
Value(v) == [state |-> "value", value |-> v]

\* A request body: one that sdp_types::Session::parse rejects, or a session
\* with its attributes.
Sdp(valid, attributes) == [valid |-> valid, attributes |-> attributes]

NoSdp == Sdp(FALSE, [a \in Attributes |-> Absent])

\* The session description a Moonlight client announces: 64x48 at 60 fps,
\* packets of 1024 bytes, 20 kbps, 2 FEC packets, video QoS on, audio QoS off.
GoodSdp ==
    Sdp(TRUE,
        [a \in Attributes |->
            CASE a = "x-nv-video[0].clientViewportWd" -> Value(<<"6", "4">>)
              [] a = "x-nv-video[0].clientViewportHt" -> Value(<<"4", "8">>)
              [] a = "x-nv-video[0].maxFPS" -> Value(<<"6", "0">>)
              [] a = "x-nv-video[0].packetSize" -> Value(<<"1", "0", "2", "4">>)
              [] a = "x-nv-vqos[0].bw.maximumBitrateKbps" -> Value(<<"2", "0">>)
              [] a = "x-nv-vqos[0].fec.minRequiredFecPackets" -> Value(<<"2">>)
              [] a = "x-nv-vqos[0].qosTrafficType" -> Value(<<"5">>)
              [] a = "x-nv-aqos.packetDuration" -> Value(<<"5">>)
              [] a = "x-nv-aqos.qosTrafficType" -> Value(<<"0">>)])

\* The session description with one attribute replaced.
SdpWith(sdp, a, attribute) ==
    Sdp(sdp.valid, [sdp.attributes EXCEPT ![a] = attribute])

\* Values no number type parses: empty, not a number, negative, too large.
UnparseableValues ==
    {<<>>, <<"x">>, <<"1", "k">>, <<"-", "1">>,
     <<"9", "9", "9", "9", "9", "9", "9", "9", "9", "9",
       "9", "9", "9", "9", "9", "9", "9", "9", "9", "9", "9">>}

\* The request target as the client wrote it: "streamid=<kind>/<n>/<n>" as
\* Moonlight sends it ("bare"), an absolute rtsp:// URI with the given query
\* pairs, or "*".  A query pair is a key and the '/'-separated segments of
\* its value.
Pair(key, segments) == [key |-> key, segments |-> segments]
Target(form, query) == [form |-> form, query |-> query]

\* The Transport header: missing, one typed_header cannot parse, or the
\* list of its transports ("rtp" for Transport::Rtp, "other" for
\* Transport::Other).
Transports(state, list) == [state |-> state, list |-> list]

\* rtsp_types::Message: a request, or something else (a response, data).
Message(kind, method, cseq, target, transports, body) ==
    [kind |-> kind, method |-> method, cseq |-> cseq, target |-> target,
     transports |-> transports, body |-> body]

\* rtsp_types::Response: the status and the headers the server sets.
Response(status, cseq, session_header, transport) ==
    [status |-> status, cseq |-> cseq, session |-> session_header,
     transport |-> transport]

NoResponse == Response(0, <<>>, "", None)

\* ------------------------------------------------------ RTSP request handlers

\* rtsp_response always answering with CSeq 0.
rtsp_response_NoCSeq(cseq, status) == Response(status, to_string(0), "", None)

\* rtsp_response: a response with nothing but the CSeq header.
rtsp_response(cseq, status) == Response(status, to_string(cseq), "", None)

\* handle_options_request.
handle_options_request(request, cseq) ==
    Response(200, to_string(cseq), "", None)

\* handle_describe_request: the fixed description always parses and writes.
handle_describe_request(request, cseq) ==
    Response(200, to_string(cseq), "", None)

\* The rewriting of lines 334-335 followed by request.request_uri(): every
\* "streamid" of the message becomes "rtsp://localhost?streamid", so the
\* bare target becomes the URI rtsp://localhost?streamid=..., and a
\* streamid key inside the query of an absolute URI becomes the key
\* "rtsp://localhost?streamid".  The result is the query of the request
\* URI, None for the target "*".
RewriteKey(key) ==
    IF key = "streamid" THEN "rtsp://localhost?streamid" ELSE key

request_uri(request) ==
    CASE request.target.form = "star" -> None
      [] request.target.form = "bare" -> Some(request.target.query)
      [] request.target.form = "absolute" ->
            Some([i \in 1..Len(request.target.query) |->
                    Pair(RewriteKey(request.target.query[i].key),
                         request.target.query[i].segments)])

\* The port of the match at lines 131-143; 0 for an unknown stream.
StreamPort(stream) ==
    CASE stream = "video" -> VideoPort
      [] stream = "audio" -> AudioPort
      [] stream = "control" -> ControlPort
      [] OTHER -> 0

\* The first transport of the Transport header must be a Transport::Other.
\* SETUP answering whatever the Transport header is.
TransportAccepted_Always(transports) == TRUE

TransportAccepted(transports) ==
    /\ transports.state = "parsed"
    /\ Len(transports.list) > 0
    /\ transports.list[1] = "other"

\* handle_setup_request.
handle_setup_request(request, cseq) ==
    IF ~TransportAccepted(request.transports)
    THEN rtsp_response(cseq, 400)
    ELSE LET uri == request_uri(request) IN
         IF uri = None THEN rtsp_response(cseq, 400)
         ELSE IF Len(Unwrap(uri)) = 0 THEN rtsp_response(cseq, 400)
         ELSE LET query == Unwrap(uri)[1] IN
              IF query.key # "streamid" THEN rtsp_response(cseq, 400)
              ELSE IF StreamPort(query.segments[1]) = 0
              THEN rtsp_response(cseq, 400)
              ELSE Response(200, to_string(cseq),
                            "MoonshineSession;timeout = 90",
                            Some(StreamPort(query.segments[1])))

\* The attribute's value with a missing attribute read as "0".
AttributeValue_Lenient(sdp, attribute) ==
    IF sdp.attributes[attribute].state # "value"
    THEN [ok |-> TRUE, value |-> <<"0">>]
    ELSE [ok |-> TRUE, value |-> Trim(sdp.attributes[attribute].value)]

\* Lines 409-412: get_first_attribute_value is an Err for an absent
\* attribute and None for one without a value; the value is trimmed.
AttributeValue(sdp, attribute) ==
    IF sdp.attributes[attribute].state # "value"
    THEN [ok |-> FALSE, value |-> <<>>]
    ELSE [ok |-> TRUE, value |-> Trim(sdp.attributes[attribute].value)]

ParseU32(s) == ParseUnsigned(s, U32MaxDigits)
ParseUsize(s) == ParseUnsigned(s, UsizeMaxDigits)

\* F::from_str for the type F of the attribute.
FromStr(type, s) ==
    CASE type = "u32" -> ParseU32(s)
      [] type = "usize" -> ParseUsize(s)
      [] type = "String" -> ParseString(s)

\* get_sdp_attribute::<F>: Err for an attribute without a value and for a
\* value that does not parse.
get_sdp_attribute(sdp, attribute, type) ==
    IF ~AttributeValue(sdp, attribute).ok THEN ParseError
    ELSE FromStr(type, AttributeValue(sdp, attribute).value)

\* handle_announce_request up to the call of set_stream_context: whether
\* the body yields the two stream contexts, and the contexts.
AnnouncedContexts(request) ==
    LET sdp == request.body
        width == get_sdp_attribute(sdp, "x-nv-video[0].clientViewportWd", "u32")
        height == get_sdp_attribute(sdp, "x-nv-video[0].clientViewportHt", "u32")
        fps == get_sdp_attribute(sdp, "x-nv-video[0].maxFPS", "u32")
        packet_size == get_sdp_attribute(sdp, "x-nv-video[0].packetSize", "usize")
        bitrate == get_sdp_attribute(sdp, "x-nv-vqos[0].bw.maximumBitrateKbps", "usize")
        minimum_fec_packets ==
            get_sdp_attribute(sdp, "x-nv-vqos[0].fec.minRequiredFecPackets", "u32")
        video_qos_type == get_sdp_attribute(sdp, "x-nv-vqos[0].qosTrafficType", "String")
        packet_duration == get_sdp_attribute(sdp, "x-nv-aqos.packetDuration", "u32")
        audio_qos_type == get_sdp_attribute(sdp, "x-nv-aqos.qosTrafficType", "String")
        ok == /\ sdp.valid
              /\ width.ok /\ height.ok /\ fps.ok /\ packet_size.ok
              /\ bitrate.ok /\ minimum_fec_packets.ok /\ video_qos_type.ok
              /\ packet_duration.ok /\ audio_qos_type.ok
    IN  IF ~ok THEN [ok |-> FALSE, video |-> "-", audio |-> "-"]
        ELSE [ok |-> TRUE,
              video |-> [width |-> width.value, height |-> height.value,
                         fps |-> fps.value, packet_size |-> packet_size.value,
                         bitrate |-> bitrate.value * 1024,
                         minimum_fec_packets |-> minimum_fec_packets.value,
                         qos |-> video_qos_type.value # <<"0">>],
              audio |-> [packet_duration |-> packet_duration.value,
                         qos |-> audio_qos_type.value # <<"0">>]]

\* ------------------------------------------------------- RTSP connections

\* The addresses connections come from, and the address a SessionContext
\* permits (the client that launched the session).
Peers == {"peer1", "peer2"}

PermittedAddress(context) == IF context = "c1" THEN "peer1" ELSE "peer2"

\* The state of handle_connection for one accepted connection: where it
\* is, the peer, whether message_buffer holds an incomplete message, the
\* number of messages parsed and of responses written, the message, the
\* response, and how the connection ended.
Connection(pc, peer, buffered, parsed, written, message, response, end) ==
    [pc |-> pc, peer |-> peer, buffered |-> buffered, parsed |-> parsed,
     written |-> written, message |-> message, response |-> response,
     end |-> end]

NoMessage ==
    Message("none", "-", None, Target("star", <<>>),
            Transports("missing", <<>>), NoSdp)

NoConnection ==
    Connection("none", "-", FALSE, 0, 0, NoMessage, NoResponse, "-")

\* The connection once handle_connection has returned and dropped it; the
\* message and the response are gone with the handler.
Closed(c, end) ==
    [c EXCEPT !.pc = "closed", !.end = end, !.message = NoMessage,
              !.response = NoResponse]

\* listener.accept(): one connection is served at a time.
RtspAccept ==
    /\ conn.pc \in {"none", "closed"}
    /\ accepted < MaxConns
    /\ accepted' = accepted + 1
    /\ \E peer \in Peers :
         conn' = Connection("read", peer, FALSE, 0, 0, NoMessage, NoResponse, "-")
    /\ UNCHANGED <<play_ok, coreVars, pairVars, videoVars, readVars>>

\* One turn of the read loop that does not yield a message: no byte or a
\* read error, bytes that are not UTF-8 or not RTSP (handle_connection
\* returns), or an incomplete message (the loop continues).
RtspReadNothing ==
    /\ conn.pc = "read"
    /\ \E outcome \in {"eof", "error", "incomplete"} :
         conn' = IF outcome = "incomplete"
                 THEN [conn EXCEPT !.buffered = TRUE]
                 ELSE Closed(conn, outcome)
    /\ UNCHANGED <<accepted, play_ok, coreVars, pairVars, videoVars, readVars>>

\* The turn of the read loop in which Message::parse returns a message.
RtspRead(messages) ==
    /\ conn.pc = "read"
    /\ \E message \in messages :
         conn' = [conn EXCEPT !.pc = "handle", !.message = message,
                              !.parsed = conn.parsed + 1]
    /\ UNCHANGED <<accepted, play_ok, coreVars, pairVars, videoVars, readVars>>

\* Lines 355-381: the CSeq header, then the handler of the method, whatever
\* the peer's address.  ANNOUNCE and PLAY send a command and wait while the
\* channel is full; they answer 200 once the command is in the channel.
RtspHandle ==
    /\ conn.pc = "handle"
    /\ LET request == conn.message
           cseq == IF IsSome(request.cseq)
                   THEN ParseI32(Unwrap(request.cseq)) ELSE ParseError
           Answer(response) ==
               /\ conn' = [conn EXCEPT !.pc = "write", !.response = response]
               /\ UNCHANGED <<play_ok, coreVars>>
       IN  IF request.kind # "request"
           THEN Answer(rtsp_response(0, 400))
           ELSE IF ~cseq.ok
           THEN /\ conn' = Closed(conn, "error")
                /\ UNCHANGED <<play_ok, coreVars>>
           ELSE CASE request.method = "OPTIONS" ->
                       Answer(handle_options_request(request, cseq.value))
                  [] request.method = "DESCRIBE" ->
                       Answer(handle_describe_request(request, cseq.value))
                  [] request.method = "SETUP" ->
                       Answer(handle_setup_request(request, cseq.value))
                  [] request.method = "ANNOUNCE" ->
                       LET contexts == AnnouncedContexts(request) IN
                       IF ~contexts.ok
                       THEN Answer(rtsp_response(cseq.value, 400))
                       ELSE IF ~manager_alive
                       THEN Answer(rtsp_response(cseq.value, 500))
                       ELSE /\ Send(Command("SetStreamContext", sent + 1,
                                            contexts.video, contexts.audio,
                                            "-", "-"))
                            /\ conn' = [conn EXCEPT !.pc = "write",
                                   !.response = rtsp_response(cseq.value, 200)]
                            /\ UNCHANGED play_ok
                  [] request.method = "PLAY" ->
                       IF ~manager_alive
                       THEN Answer(rtsp_response(cseq.value, 500))
                       ELSE /\ Send(Command("StartSession", sent + 1,
                                            "-", "-", "-", "-"))
                            /\ conn' = [conn EXCEPT !.pc = "write",
                                   !.response = rtsp_response(cseq.value, 200)]
                            /\ play_ok' = play_ok \cup {sent + 1}
                  [] OTHER -> Answer(rtsp_response(cseq.value, 400))
    /\ UNCHANGED <<accepted, pairVars, videoVars, readVars>>

\* Where handle_connection goes after writing the response: back to the
\* read loop, serving the next request of the connection.
AfterWrite_KeepAlive == "read"

\* After write_all comes connection.shutdown().
AfterWrite == "shutdown"

\* response.write and connection.write_all; an error ends the handler.
RtspWrite ==
    /\ conn.pc = "write"
    /\ \E ok \in BOOLEAN :
         conn' = IF ok
                 THEN [conn EXCEPT !.pc = AfterWrite,
                                   !.written = conn.written + 1]
                 ELSE Closed(conn, "error")
    /\ UNCHANGED <<accepted, play_ok, coreVars, pairVars, videoVars, readVars>>

\* connection.shutdown(), then the connection is dropped.
RtspShutdown ==
    /\ conn.pc = "shutdown"
    /\ \E ok \in BOOLEAN :
         conn' = Closed(conn, IF ok THEN "shutdown" ELSE "error")
    /\ UNCHANGED <<accepted, play_ok, coreVars, pairVars, videoVars, readVars>>

\* ------------------------------------------------------ the RTSP requests

Methods == {"OPTIONS", "DESCRIBE", "SETUP", "ANNOUNCE", "PLAY", "TEARDOWN"}

\* CSeq headers: plain, with leading zeros, signed, empty, not a number,
\* larger than i32::MAX, and no header at all.
CSeqHeaders ==
    {Some(<<"1">>), Some(<<"4", "2">>), Some(<<"0", "0", "7">>),
     Some(<<"+", "2">>), Some(<<"-", "3">>), Some(<<>>), Some(<<"x">>),
     Some(I32MinDigits), None}

\* The targets of SETUP requests.
StreamIds ==
    {<<"video", "0", "0">>, <<"audio", "0", "0">>, <<"control", "13", "0">>,
     <<"video">>, <<"data", "0", "0">>, <<"">>}

SetupTargets ==
    {Target("bare", <<Pair("streamid", id)>>) : id \in StreamIds}
    \cup {Target("absolute", <<>>), Target("star", <<>>),
          Target("absolute", <<Pair("streamid", <<"video", "0", "0">>)>>),
          Target("absolute", <<Pair("id", <<"video", "0", "0">>)>>),
          Target("absolute", <<Pair("id", <<"1">>),
                               Pair("streamid", <<"audio", "0", "0">>)>>)}

\* The Transport headers of SETUP requests; Moonlight sends
\* "unicast;X-GS-ClientPort=...", which parses as one Transport::Other.
SetupTransports ==
    {Transports("missing", <<>>), Transports("invalid", <<>>),
     Transports("parsed", <<>>), Transports("parsed", <<"other">>),
     Transports("parsed", <<"rtp">>), Transports("parsed", <<"rtp", "other">>)}

\* The bodies of ANNOUNCE requests: the good description; one the SDP
\* parser rejects; one attribute absent, without value or unparseable;
\* padded values; the packet sizes 0 and 65536; other QoS types.
AnnounceBodies ==
    {GoodSdp, NoSdp}
    \cup {SdpWith(GoodSdp, a, Absent) : a \in Attributes}
    \cup {SdpWith(GoodSdp, a, NoValue) : a \in Attributes}
    \cup {SdpWith(GoodSdp, a, Value(v)) :
            a \in NumericAttributes, v \in UnparseableValues}
    \cup {SdpWith(GoodSdp, a, Value(<<" ", "8", " ">>)) : a \in NumericAttributes}
    \cup {SdpWith(GoodSdp, "x-nv-video[0].packetSize", Value(v)) :
            v \in {<<"0">>, <<"6", "5", "5", "3", "6">>}}
    \cup {SdpWith(GoodSdp, a, Value(v)) :
            a \in Attributes \ NumericAttributes,
            v \in {<<"0">>, <<"5">>, <<"x">>, <<>>}}

\* The request of each method as Moonlight sends it, with the given CSeq.
Request(method, cseq) ==
    Message("request", method, cseq,
            IF method = "SETUP"
            THEN Target("bare", <<Pair("streamid", <<"video", "0", "0">>)>>)
            ELSE Target("absolute", <<>>),
            IF method = "SETUP"
            THEN Transports("parsed", <<"other">>)
            ELSE Transports("missing", <<>>),
            IF method = "ANNOUNCE" THEN GoodSdp ELSE NoSdp)

\* Every message the requests above combine to, and a message that is not
\* a request.
Messages ==
    {Request(method, cseq) : method \in Methods, cseq \in CSeqHeaders}
    \cup {[Request("SETUP", Some(<<"1">>)) EXCEPT !.target = target,
                                                   !.transports = transports] :
            target \in SetupTargets, transports \in SetupTransports}
    \cup {[Request("ANNOUNCE", Some(<<"1">>)) EXCEPT !.body = body] :
            body \in AnnounceBodies}
    \cup {[Request("OPTIONS", Some(<<"1">>)) EXCEPT !.kind = "response"]}

\* The requests of one streaming session: SETUP, ANNOUNCE with the good
\* description, with a packet size of 0 or 65536 and with an attribute
\* missing, and PLAY.
SessionMessages ==
    {Request(method, Some(<<"1">>)) : method \in {"SETUP", "ANNOUNCE", "PLAY"}}
    \cup {[Request("ANNOUNCE", Some(<<"1">>)) EXCEPT !.body = body] :
            body \in {SdpWith(GoodSdp, "x-nv-video[0].packetSize", Value(<<"0">>)),
                      SdpWith(GoodSdp, "x-nv-video[0].packetSize",
                              Value(<<"6", "5", "5", "3", "6">>)),
                      SdpWith(GoodSdp, "x-nv-video[0].maxFPS", Absent)}}

\* ------------------------------------------------------------------ pairing

\* The unique ids of the pairing clients.
UniqueIds == {"u1", "u2"}

\* The step-specific parameters of a /pair request.
StepKeys == {"clientchallenge", "serverchallengeresp", "clientpairingsecret"}

\* The query of a /pair request: the phrase and the uniqueid if present,
\* the step-specific keys present, and the state of the values the step
\* decodes ("ok", or what is wrong with them).
Params(phrase, keys, uniqueid, fields) ==
    [phrase |-> phrase, keys |-> keys, uniqueid |-> uniqueid, fields |-> fields]

NoParams == Params(None, {}, None, "-")

\* What can be wrong with the values get_server_cert decodes, in the order
\* it looks at them (uniqueid apart).
CertFields ==
    {"no clientcert", "clientcert not hex", "no salt", "salt not hex",
     "salt not 16 bytes", "clientcert not pem"}

\* The uniqueid and the state of the values of a request.
NoUniqueId == <<None, "ok">>
GoodValues == {<<Some(u), "ok">> : u \in UniqueIds}

\* The /pair requests: getservercert with good values, without uniqueid
\* and with each bad value; requests without phrase with every set of
\* step-specific keys; pairchallenge; unknown phrases, with and without
\* step-specific keys.
PairRequests ==
    {Params(Some("getservercert"), keys, v[1], v[2]) :
        keys \in {{}, {"clientchallenge"}},
        v \in GoodValues \cup {NoUniqueId}
              \cup {<<Some("u1"), f>> : f \in CertFields}}
    \cup {Params(None, keys, v[1], v[2]) :
            keys \in SUBSET StepKeys,
            v \in GoodValues \cup {NoUniqueId, <<Some("u1"), "not hex">>}}
    \cup {Params(Some("pairchallenge"), keys, v[1], v[2]) :
            keys \in {{}, StepKeys}, v \in GoodValues \cup {NoUniqueId}}
    \cup {Params(Some(phrase), keys, v[1], v[2]) :
            phrase \in {"bogus", ""},
            keys \in {{}, {"clientchallenge"}, StepKeys},
            v \in {NoUniqueId, <<Some("u1"), "ok">>}}

\* handle_pair_request looking at the step-specific parameters first.
Dispatch_KeysFirst(params) ==
    IF "clientchallenge" \in params.keys THEN "client_challenge"
    ELSE IF "serverchallengeresp" \in params.keys THEN "server_challenge_response"
    ELSE IF "clientpairingsecret" \in params.keys THEN "client_pairing_secret"
    ELSE IF params.phrase = Some("getservercert") THEN "get_server_cert"
    ELSE IF params.phrase = Some("pairchallenge") THEN "pair_challenge"
    ELSE IF IsSome(params.phrase) THEN "unknown phrase"
    ELSE "unknown command"

\* handle_pair_request: the handler a request goes to.
Dispatch(params) ==
    IF IsSome(params.phrase)
    THEN CASE Unwrap(params.phrase) = "getservercert" -> "get_server_cert"
           [] Unwrap(params.phrase) = "pairchallenge" -> "pair_challenge"
           [] OTHER -> "unknown phrase"
    ELSE IF "clientchallenge" \in params.keys THEN "client_challenge"
    ELSE IF "serverchallengeresp" \in params.keys THEN "server_challenge_response"
    ELSE IF "clientpairingsecret" \in params.keys THEN "client_pairing_secret"
    ELSE "unknown command"

\* An HTTP response: the status and the body (a message and its argument,
\* or the elements of the XML root).
HttpResponse(status, body) == [status |-> status, body |-> body]

NoHttpResponse == HttpResponse(0, <<>>)

\* webserver::bad_request: status 400 with the message as body.
bad_request(message) == HttpResponse(400, message)

\* A pair request, its response (NoHttpResponse while the handler waits)
\* and the registry operation the handler called ("-" for none).
PairExchange(request, response, op) ==
    [request |-> request, response |-> response, op |-> op]

NoPairExchange == PairExchange(NoParams, NoHttpResponse, "-")

\* PendingClient: the id, the PIN notifier (one per getservercert), and the
\* last handshake step the registry did for it.
PendingClient(id, pin_notify) == [id |-> id, pin_notify |-> pin_notify, step |-> 1]

\* ClientManager::start_pairing: an Err when the unique_id has a
\* PendingClient already.
StartPairingRejected(id) == IsSome(pending[id])

\* get_server_cert going on to the PIN wait whatever start_pairing returned.
AfterStartPairing_Wait(rejected) == "wait"

\* get_server_cert after start_pairing: Err returns bad_request, Ok(())
\* goes on to the PIN wait.
AfterStartPairing(rejected) == IF rejected THEN "return" ELSE "wait"

\* A handler's response and registry call, and the count of requests.
Replies(params, response, op) ==
    /\ pair_last' = PairExchange(params, response, op)
    /\ pair_count' = pair_count + 1

\* handle_pair_request for an unknown phrase and for no known parameter.
PairUnknown(params) ==
    /\ pair_count < MaxPairRequests
    /\ Dispatch(params) \in {"unknown phrase", "unknown command"}
    /\ Replies(params,
               IF Dispatch(params) = "unknown phrase"
               THEN bad_request(<<"Unknown pair phrase received: ",
                                  Unwrap(params.phrase)>>)
               ELSE bad_request(<<"Unknown pair command with params: ", "">>),
               "-")
    /\ UNCHANGED <<pending, clients, pair_waiting, pin_notified>>
    /\ UNCHANGED <<rtspVars, coreVars, videoVars, readVars>>

\* get_server_cert up to the PIN wait: the parameters, then start_pairing.
GetServerCert(params) ==
    /\ pair_count < MaxPairRequests
    /\ Dispatch(params) = "get_server_cert"
    /\ IF params.fields # "ok" \/ params.uniqueid = None
       THEN /\ Replies(params, bad_request(<<"get_server_cert: ", params.fields>>), "-")
            /\ UNCHANGED <<pending, pair_waiting>>
       ELSE LET id == Unwrap(params.uniqueid) IN
            IF AfterStartPairing(StartPairingRejected(id)) = "return"
            THEN /\ Replies(params,
                            bad_request(<<"Failed to start pairing client: ", id>>),
                            "start_pairing")
                 /\ UNCHANGED <<pending, pair_waiting>>
            ELSE /\ Replies(params, NoHttpResponse, "start_pairing")
                 /\ pending' = IF StartPairingRejected(id) THEN pending
                               ELSE [pending EXCEPT
                                  ![id] = Some(PendingClient(id, pair_count + 1))]
                 /\ pair_waiting' = pair_waiting \cup
                      {[id |-> id, pin_notify |-> pair_count + 1,
                        request |-> params]}
    /\ UNCHANGED <<clients, pin_notified>>
    /\ UNCHANGED <<rtspVars, coreVars, videoVars, readVars>>

\* The PIN wait ending as soon as it starts.
PinWaitOver_Immediately(handler) == TRUE

\* pin_notifier.notified().await: over once the notifier is notified.
PinWaitOver(handler) == handler.pin_notify \in pin_notified

\* get_server_cert after the PIN wait: the certificate, or 400 when it
\* cannot be serialised.
GetServerCertReturn(handler) ==
    /\ handler \in pair_waiting
    /\ PinWaitOver(handler)
    /\ pair_waiting' = pair_waiting \ {handler}
    /\ \E ok \in BOOLEAN :
         pair_last' = PairExchange(handler.request,
                        IF ok THEN HttpResponse(200, <<"paired=1", "plaincert">>)
                        ELSE bad_request(<<"to_pem: ", "">>),
                        "-")
    /\ UNCHANGED <<pending, clients, pin_notified, pair_count>>
    /\ UNCHANGED <<rtspVars, coreVars, videoVars, readVars>>

\* The operator posts the PIN of a unique_id at /pin: the registry notifies
\* the PIN notifier of its PendingClient, if there is one.
PostPin(id) ==
    /\ IsSome(pending[id])
    /\ Unwrap(pending[id]).pin_notify \notin pin_notified
    /\ pin_notified' = pin_notified \cup {Unwrap(pending[id]).pin_notify}
    /\ UNCHANGED <<pending, clients, pair_waiting, pair_last, pair_count>>
    /\ UNCHANGED <<rtspVars, coreVars, videoVars, readVars>>

\* client_challenge, server_challenge_response and client_pairing_secret:
\* the parameters, then the registry, which fails without a PendingClient
\* and, for the pairing secret, on a hash mismatch (dropping the client).
PairStep(params) ==
    /\ pair_count < MaxPairRequests
    /\ Dispatch(params) \in {"client_challenge", "server_challenge_response",
                             "client_pairing_secret"}
    /\ IF params.fields # "ok" \/ params.uniqueid = None
       THEN /\ Replies(params, bad_request(<<Dispatch(params), params.fields>>), "-")
            /\ UNCHANGED pending
       ELSE LET id == Unwrap(params.uniqueid)
                step == CASE Dispatch(params) = "client_challenge" -> 2
                          [] Dispatch(params) = "server_challenge_response" -> 3
                          [] Dispatch(params) = "client_pairing_secret" -> 5
            IN  IF pending[id] = None
                THEN /\ Replies(params, bad_request(<<"Failed: ", id>>),
                                Dispatch(params))
                     /\ UNCHANGED pending
                ELSE \E matches \in BOOLEAN :
                       IF step = 5 /\ ~matches
                       THEN /\ Replies(params, bad_request(<<"Failed: ", id>>),
                                       Dispatch(params))
                            /\ pending' = [pending EXCEPT ![id] = None]
                       ELSE /\ Replies(params, HttpResponse(200, <<"paired=1", "">>),
                                       Dispatch(params))
                            /\ pending' = [pending EXCEPT ![id] =
                                 Some([Unwrap(pending[id]) EXCEPT !.step = step])]
    /\ UNCHANGED <<clients, pair_waiting, pin_notified>>
    /\ UNCHANGED <<rtspVars, coreVars, videoVars, readVars>>

\* pair_challenge: add_client promotes the PendingClient; its result is
\* discarded and the answer is always paired=1.
PairChallenge(params) ==
    /\ pair_count < MaxPairRequests
    /\ Dispatch(params) = "pair_challenge"
    /\ IF params.uniqueid = None
       THEN /\ Replies(params, bad_request(<<"pair_challenge: ", "no uniqueid">>), "-")
            /\ UNCHANGED <<pending, clients>>
       ELSE LET id == Unwrap(params.uniqueid) IN
            /\ Replies(params, HttpResponse(200, <<"paired=1", "">>), "add_client")
            /\ clients' = IF IsSome(pending[id]) THEN clients \cup {id} ELSE clients
            /\ pending' = [pending EXCEPT ![id] = None]
    /\ UNCHANGED <<pair_waiting, pin_notified>>
    /\ UNCHANGED <<rtspVars, coreVars, videoVars, readVars>>

NextPair ==
    \/ \E params \in PairRequests : PairUnknown(params)
    \/ \E params \in PairRequests : GetServerCert(params)
    \/ \E handler \in pair_waiting : GetServerCertReturn(handler)
    \/ \E id \in UniqueIds : PostPin(id)
    \/ \E params \in PairRequests : PairStep(params)
    \/ \E params \in PairRequests : PairChallenge(params)

\* ------------------------------------------------------- video worker, in detail
\* One VideoStream (session/stream/video/mod.rs): the task of
\* VideoStreamInner::run, the socket task it spawns, and the capture and
\* encode threads.  FrameCapturer::run and Encoder::run follow the
\* specification (sections 4.5 and 5).

\* VideoStreamCommand.
VideoStreamCommands == {"Start", "RequestIdrFrame"}

\* The source addresses datagrams arrive from.
Addresses == {"a1", "a2"}

\* The payload the socket task compares with: b"PING".
Ping == <<"P", "I", "N", "G">>

\* The payloads of the datagrams: PING, PING with a byte more, a byte less,
\* in lower case, and the empty datagram.
Payloads ==
    {Ping, <<"P", "I", "N", "G", "!">>, <<"P", "I", "N">>,
     <<"p", "i", "n", "g">>, <<>>}

\* A datagram and the record of none received yet.
Datagram(from, payload) == [from |-> from, payload |-> payload]

NoDatagram == Datagram("-", <<>>)

\* What send_to was last called with, and the record of no call yet.
SentPacket(packet, to) == [packet |-> packet, to |-> to]

NoSentPacket == SentPacket(0, "-")

\* `let mut buf = [0; 1024]`.
BufSize == 1024

\* socket.recv_from(&mut buf): &buf[..len], the datagram cut to the buffer.
Received(payload) ==
    SubSeq(payload, 1, IF Len(payload) < BufSize THEN Len(payload) ELSE BufSize)

\* The socket task taking every datagram for a PING.
IsPing_Any(bytes) == TRUE

\* `&buf[..len] == b"PING"`.
IsPing(bytes) == bytes = Ping

\* The broadcast channel with the receiver of run dropped at once: only the
\* encoder's subscription receives.
BroadcastReceivers_Subscribed(subscribed) == IF subscribed THEN 1 ELSE 0

\* The receivers of the broadcast channel: _idr_frame_request_rx, which run
\* keeps until it ends, and the encoder's subscription.
BroadcastReceivers(subscribed) == IF subscribed THEN 2 ELSE 1

\* The encoder's receiver has a request it has not taken yet.
IdrPending(sent_requests, next) == next < sent_requests

\* The packet channel never reporting its end to the socket task.
PacketChannelClosed_Never(pc, encoders) == FALSE

\* packet_rx.recv() returns None: every Sender is dropped, the one of run
\* and the clones of the encode threads.
PacketChannelClosed(pc, encoders) == pc # "loop" /\ encoders = 0

\* The UDP port of the video stream is free for UdpSocket::bind.
PortFree == socket_task # "running"

\* What a Sender can do with a packet when the channel is full: wait for
\* room (send, blocking_send) or give the packet up (try_send).
FullOutcomes == {"wait", "full"}

\* wrap_trigger_shutdown: the end of run triggers the stop_signal.
RunEnds(pc) ==
    /\ run_pc' = pc
    /\ stop_triggered' = TRUE

\* VideoStream::start and VideoStream::request_idr_frame.
VideoSend(command) ==
    /\ command_tx_open
    /\ run_pc \in {"bind", "loop"}
    /\ commands_sent < MaxVideoCmds
    /\ Len(command_rx) < VideoCommandCapacity
    /\ command_rx' = Append(command_rx, command)
    /\ commands_sent' = commands_sent + 1
    /\ UNCHANGED <<command_tx_open, stop_triggered, run_pc, started_streaming,
                   capture_threads, encode_threads, encoder_holding,
                   packet_rx, packets_made, socket_task, client_address,
                   last_datagram, last_sent, idr_sent, idr_next,
                   last_frame_idr>>

\* Every clone of the VideoStream handle is dropped.
VideoDropHandles ==
    /\ command_tx_open
    /\ command_tx_open' = FALSE
    /\ UNCHANGED <<command_rx, commands_sent, stop_triggered, run_pc,
                   started_streaming, capture_threads, encode_threads,
                   encoder_holding, packet_rx, packets_made, socket_task,
                   client_address, last_datagram, last_sent, idr_sent,
                   idr_next, last_frame_idr>>

\* The session's shutdown signal is triggered from outside the worker.
StopSignalTriggered ==
    /\ ~stop_triggered
    /\ stop_triggered' = TRUE
    /\ UNCHANGED <<command_rx, commands_sent, command_tx_open, run_pc,
                   started_streaming, capture_threads, encode_threads,
                   encoder_holding, packet_rx, packets_made, socket_task,
                   client_address, last_datagram, last_sent, idr_sent,
                   idr_next, last_frame_idr>>

\* run up to the command loop: bind, set_tos and local_addr; when they
\* succeed the packet channel is created and the socket task spawned.
RunBind ==
    /\ run_pc = "bind"
    /\ ~stop_triggered
    /\ \E ok \in BOOLEAN :
         IF ok
         THEN /\ run_pc' = "loop"
              /\ socket_task' = "running"
              /\ UNCHANGED stop_triggered
         ELSE /\ RunEnds("failed")
              /\ UNCHANGED socket_task
    /\ UNCHANGED <<command_rx, commands_sent, command_tx_open,
                   started_streaming, capture_threads, encode_threads,
                   encoder_holding, packet_rx, packets_made, client_address,
                   last_datagram, last_sent, idr_sent, idr_next,
                   last_frame_idr>>

\* The command loop takes a Start: a warning when streaming has started;
\* else CUDA, the capturer, the encoder and the frames (an error ends run),
\* then the capture thread and the encode thread (a thread that cannot be
\* spawned is logged and the loop continues).
RunStart ==
    /\ run_pc = "loop"
    /\ ~stop_triggered
    /\ command_rx # <<>>
    /\ Head(command_rx) = "Start"
    /\ command_rx' = Tail(command_rx)
    /\ IF started_streaming
       THEN UNCHANGED <<run_pc, stop_triggered, started_streaming,
                        capture_threads, encode_threads, idr_next>>
       ELSE \E outcome \in {"error", "no capture thread", "no encode thread", "ok"} :
              CASE outcome = "error" ->
                     /\ RunEnds("failed")
                     /\ UNCHANGED <<started_streaming, capture_threads,
                                    encode_threads, idr_next>>
                [] outcome = "no capture thread" ->
                     UNCHANGED <<run_pc, stop_triggered, started_streaming,
                                 capture_threads, encode_threads, idr_next>>
                [] outcome = "no encode thread" ->
                     /\ capture_threads' = capture_threads + 1
                     /\ UNCHANGED <<run_pc, stop_triggered, started_streaming,
                                    encode_threads, idr_next>>
                [] outcome = "ok" ->
                     /\ capture_threads' = capture_threads + 1
                     /\ encode_threads' = encode_threads + 1
                     /\ idr_next' = idr_sent
                     /\ started_streaming' = TRUE
                     /\ UNCHANGED <<run_pc, stop_triggered>>
    /\ UNCHANGED <<commands_sent, command_tx_open, encoder_holding, packet_rx,
                   packets_made, socket_task, client_address, last_datagram,
                   last_sent, idr_sent, last_frame_idr>>

\* The command loop takes a RequestIdrFrame: idr_frame_request_tx.send(()),
\* an error (no receiver) ends run.
RunRequestIdrFrame ==
    /\ run_pc = "loop"
    /\ ~stop_triggered
    /\ command_rx # <<>>
    /\ Head(command_rx) = "RequestIdrFrame"
    /\ command_rx' = Tail(command_rx)
    /\ IF BroadcastReceivers(encode_threads > 0) = 0
       THEN /\ RunEnds("failed")
            /\ UNCHANGED idr_sent
       ELSE /\ idr_sent' = idr_sent + 1
            /\ UNCHANGED <<run_pc, stop_triggered>>
    /\ UNCHANGED <<commands_sent, command_tx_open, started_streaming,
                   capture_threads, encode_threads, encoder_holding,
                   packet_rx, packets_made, socket_task, client_address,
                   last_datagram, last_sent, idr_next, last_frame_idr>>

\* command_rx.recv() returns None: run returns Ok(()).
RunChannelClosed ==
    /\ run_pc = "loop"
    /\ ~stop_triggered
    /\ command_rx = <<>>
    /\ ~command_tx_open
    /\ RunEnds("returned")
    /\ UNCHANGED <<command_rx, commands_sent, command_tx_open,
                   started_streaming, capture_threads, encode_threads,
                   encoder_holding, packet_rx, packets_made, socket_task,
                   client_address, last_datagram, last_sent, idr_sent,
                   idr_next, last_frame_idr>>

\* wrap_cancel: the stop_signal is triggered and run is dropped where it
\* is, with command_rx and its packet_tx.
RunCancelled ==
    /\ stop_triggered
    /\ run_pc \in {"bind", "loop"}
    /\ run_pc' = "cancelled"
    /\ command_rx' = <<>>
    /\ UNCHANGED <<commands_sent, command_tx_open, stop_triggered,
                   started_streaming, capture_threads, encode_threads,
                   encoder_holding, packet_rx, packets_made, socket_task,
                   client_address, last_datagram, last_sent, idr_sent,
                   idr_next, last_frame_idr>>

\* FrameCapturer::run sees the stop_signal triggered and returns.
CaptureStops ==
    /\ stop_triggered
    /\ capture_threads > 0
    /\ capture_threads' = capture_threads - 1
    /\ UNCHANGED <<command_rx, commands_sent, command_tx_open, stop_triggered,
                   run_pc, started_streaming, encode_threads, encoder_holding,
                   packet_rx, packets_made, socket_task, client_address,
                   last_datagram, last_sent, idr_sent, idr_next,
                   last_frame_idr>>

\* Encoder::run encodes a frame, an IDR frame when its receiver has a
\* request, and sends the packet on its clone of packet_tx.
EncodeFrame ==
    /\ encode_threads > 0
    /\ ~stop_triggered
    /\ encoder_holding = None
    /\ packets_made < MaxPackets
    /\ packets_made' = packets_made + 1
    /\ last_frame_idr' = IdrPending(idr_sent, idr_next)
    /\ idr_next' = idr_sent
    /\ IF socket_task # "running"
       THEN /\ encode_threads' = 0
            /\ UNCHANGED <<packet_rx, encoder_holding>>
       ELSE IF Len(packet_rx) < PacketCapacity
       THEN /\ packet_rx' = Append(packet_rx, packets_made + 1)
            /\ UNCHANGED <<encode_threads, encoder_holding>>
       ELSE \E outcome \in FullOutcomes :
              /\ encoder_holding' = IF outcome = "wait"
                                    THEN Some(packets_made + 1) ELSE None
              /\ UNCHANGED <<packet_rx, encode_threads>>
    /\ UNCHANGED <<command_rx, commands_sent, command_tx_open, stop_triggered,
                   run_pc, started_streaming, capture_threads, socket_task,
                   client_address, last_datagram, last_sent, idr_sent>>

\* The send the encoder waits in completes: the channel has room, or the
\* receiver is gone and the encoder returns.
EncoderSendResumes ==
    /\ IsSome(encoder_holding)
    /\ IF socket_task # "running"
       THEN /\ encode_threads' = 0
            /\ UNCHANGED packet_rx
       ELSE /\ Len(packet_rx) < PacketCapacity
            /\ packet_rx' = Append(packet_rx, Unwrap(encoder_holding))
            /\ UNCHANGED encode_threads
    /\ encoder_holding' = None
    /\ UNCHANGED <<command_rx, commands_sent, command_tx_open, stop_triggered,
                   run_pc, started_streaming, capture_threads, packets_made,
                   socket_task, client_address, last_datagram, last_sent,
                   idr_sent, idr_next, last_frame_idr>>

\* Encoder::run sees the stop_signal triggered and returns, dropping its
\* packet_tx and its receiver.
EncodeStops ==
    /\ stop_triggered
    /\ encode_threads > 0
    /\ encoder_holding = None
    /\ encode_threads' = 0
    /\ UNCHANGED <<command_rx, commands_sent, command_tx_open, stop_triggered,
                   run_pc, started_streaming, capture_threads,
                   encoder_holding, packet_rx, packets_made, socket_task,
                   client_address, last_datagram, last_sent, idr_sent,
                   idr_next, last_frame_idr>>

\* The socket task: packet_rx.recv() yields a packet, which goes to
\* send_to when a client address is known (a failed send is logged).
SocketDequeue ==
    /\ socket_task = "running"
    /\ packet_rx # <<>>
    /\ packet_rx' = Tail(packet_rx)
    /\ last_sent' = IF IsSome(client_address)
                    THEN SentPacket(Head(packet_rx), Unwrap(client_address))
                    ELSE last_sent
    /\ UNCHANGED <<command_rx, commands_sent, command_tx_open, stop_triggered,
                   run_pc, started_streaming, capture_threads, encode_threads,
                   encoder_holding, packets_made, socket_task, client_address,
                   last_datagram, idr_sent, idr_next, last_frame_idr>>

\* The socket task: packet_rx.recv() yields None, the task ends and drops
\* the socket.
SocketClosed ==
    /\ socket_task = "running"
    /\ packet_rx = <<>>
    /\ PacketChannelClosed(run_pc, encode_threads)
    /\ socket_task' = "stopped"
    /\ UNCHANGED <<command_rx, commands_sent, command_tx_open, stop_triggered,
                   run_pc, started_streaming, capture_threads, encode_threads,
                   encoder_holding, packet_rx, packets_made, client_address,
                   last_datagram, last_sent, idr_sent, idr_next,
                   last_frame_idr>>

\* The socket task: recv_from yields a datagram; a PING sets the client
\* address to its source.
SocketReceive(datagram) ==
    /\ socket_task = "running"
    /\ last_datagram' = datagram
    /\ client_address' = IF IsPing(Received(datagram.payload))
                         THEN Some(datagram.from)
                         ELSE client_address
    /\ UNCHANGED <<command_rx, commands_sent, command_tx_open, stop_triggered,
                   run_pc, started_streaming, capture_threads, encode_threads,
                   encoder_holding, packet_rx, packets_made, socket_task,
                   last_sent, idr_sent, idr_next, last_frame_idr>>

\* The socket task: recv_from fails, the task ends and drops the socket and
\* packet_rx with what is queued.
SocketReceiveError ==
    /\ socket_task = "running"
    /\ socket_task' = "stopped"
    /\ packet_rx' = <<>>
    /\ UNCHANGED <<command_rx, commands_sent, command_tx_open, stop_triggered,
                   run_pc, started_streaming, capture_threads, encode_threads,
                   encoder_holding, packets_made, client_address,
                   last_datagram, last_sent, idr_sent, idr_next,
                   last_frame_idr>>

\* VideoStream::new: run is spawned, nothing is bound or started yet.
VideoInit ==
    /\ command_rx = <<>>
    /\ commands_sent = 0
    /\ command_tx_open = TRUE
    /\ stop_triggered = FALSE
    /\ run_pc = "bind"
    /\ started_streaming = FALSE
    /\ capture_threads = 0
    /\ encode_threads = 0
    /\ encoder_holding = None
    /\ packet_rx = <<>>
    /\ packets_made = 0
    /\ socket_task = "none"
    /\ client_address = None
    /\ last_datagram = NoDatagram
    /\ last_sent = NoSentPacket
    /\ idr_sent = 0
    /\ idr_next = 0
    /\ last_frame_idr = FALSE

\* ------------------------------------------------------- RTSP read loop
\* The read loop of handle_connection (rtsp.rs 320-351) over the bytes of
\* the connection.  A text is the sequence of its bytes; a character that
\* is not ASCII takes two bytes.

\* The two replacements of lines 334-335.
StreamId ==
    <<"s", "t", "r", "e", "a", "m", "i", "d">>

StreamIdUri ==
    <<"r", "t", "s", "p", ":", "/", "/", "l", "o", "c", "a", "l", "h", "o",
      "s", "t", "?", "s", "t", "r", "e", "a", "m", "i", "d">>

PlaySlash ==
    <<"P", "L", "A", "Y", " ", "/">>

PlayUri ==
    <<"P", "L", "A", "Y", " ", "r", "t", "s", "p", ":", "/", "/", "l", "o",
      "c", "a", "l", "h", "o", "s", "t", "/">>

\* The requests clients send: a SETUP with a bare stream id, a PLAY, a PLAY
\* with both patterns and two stream ids, a PLAY with a two-byte character,
\* and bytes that are no RTSP message.
SetupText ==
    <<"S", "E", "T", "U", "P", " ", "s", "t", "r", "e", "a", "m", "i", "d",
      "=", "v", "i", "d", "e", "o", " ", "R", "T", "S", "P", "/", "1", ".",
      "0", "<CR>", "<LF>", "<CR>", "<LF>">>

PlayText ==
    <<"P", "L", "A", "Y", " ", "/", " ", "R", "T", "S", "P", "/", "1", ".",
      "0", "<CR>", "<LF>", "<CR>", "<LF>">>

PlayStreamsText ==
    <<"P", "L", "A", "Y", " ", "/", "s", "t", "r", "e", "a", "m", "i", "d",
      " ", "s", "t", "r", "e", "a", "m", "i", "d", "<CR>", "<LF>", "<CR>",
      "<LF>">>

PlayAccentText ==
    <<"P", "L", "A", "Y", " ", "/", "<C3>", "<A9>", "<CR>", "<LF>", "<CR>",
      "<LF>">>

GarbageText ==
    <<"<01>", "L", "A", "Y", " ", "/", "<CR>", "<LF>", "<CR>", "<LF>">>

Texts == {SetupText, PlayText, PlayStreamsText, PlayAccentText, GarbageText}

\* `let mut buffer = [0u8; 2048]`.
ReadBufferSize == 2048

\* std::str::from_utf8: every lead byte is followed by its continuation
\* byte, and no continuation byte comes first.
RECURSIVE Utf8Valid(_)
Utf8Valid(bytes) ==
    IF bytes = <<>> THEN TRUE
    ELSE IF bytes[1] = "<C3>"
    THEN /\ Len(bytes) >= 2
         /\ bytes[2] = "<A9>"
         /\ Utf8Valid(SubSeq(bytes, 3, Len(bytes)))
    ELSE /\ bytes[1] # "<A9>"
         /\ Utf8Valid(Tail(bytes))

\* str::replace: every match, found from left to right without overlap, is
\* replaced.
RECURSIVE Replace(_, _, _)
Replace(text, from, to) ==
    IF Len(text) < Len(from) THEN text
    ELSE IF SubSeq(text, 1, Len(from)) = from
    THEN to \o Replace(SubSeq(text, Len(from) + 1, Len(text)), from, to)
    ELSE <<text[1]>> \o Replace(Tail(text), from, to)

\* Lines 334-335: "streamid", then "PLAY /".
Rewrite(text) == Replace(Replace(text, StreamId, StreamIdUri), PlaySlash, PlayUri)

\* The position after the first empty line of a text, 0 when it has none.
RECURSIVE MessageEnd(_, _)
MessageEnd(text, from) ==
    IF from + 3 > Len(text) THEN 0
    ELSE IF SubSeq(text, from, from + 3) = <<"<CR>", "<LF>", "<CR>", "<LF>">>
    THEN from + 3
    ELSE MessageEnd(text, from + 1)

\* rtsp_types::Message::parse for messages without body: an error for
\* bytes that cannot be in a message, Incomplete until the empty line that
\* ends the headers is there, then the message up to that line.
Parse(text) ==
    IF \E i \in 1..Len(text) : text[i] = "<01>"
    THEN [kind |-> "error", message |-> <<>>]
    ELSE IF MessageEnd(text, 1) = 0
    THEN [kind |-> "incomplete", message |-> <<>>]
    ELSE [kind |-> "ok", message |-> SubSeq(text, 1, MessageEnd(text, 1))]

\* The read loop keeping the rewritten text for its next turn.
KeptBuffer_Rewritten(read, rewritten) == rewritten

\* What message_buffer holds in the next turn of the loop: the bytes read;
\* the rewritten text is a local of the turn that shadows it.
KeptBuffer(read, rewritten) == read

\* A client connects and sends a request.
ReadConnect(text) ==
    /\ read_pc = "idle"
    /\ read_pc' = "read"
    /\ wire' = text
    /\ UNCHANGED <<received, read_sizes, message_buffer, parsed_message>>

\* One turn of the loop: connection.read yields some of the bytes, which
\* must be UTF-8 by themselves; they are appended, the text is rewritten
\* and parsed.
ReadTurn ==
    /\ read_pc = "read"
    /\ wire # <<>>
    /\ Len(read_sizes) < MaxReads
    /\ \E bytes_read \in 1..Len(wire) :
         LET buffer == SubSeq(wire, 1, bytes_read)
             read == message_buffer \o buffer
             rewritten == Rewrite(read)
             result == Parse(rewritten)
         IN  /\ bytes_read <= ReadBufferSize
             /\ wire' = SubSeq(wire, bytes_read + 1, Len(wire))
             /\ received' = received \o buffer
             /\ read_sizes' = Append(read_sizes, bytes_read)
             /\ IF ~Utf8Valid(buffer)
                THEN /\ read_pc' = "utf8 error"
                     /\ UNCHANGED <<message_buffer, parsed_message>>
                ELSE /\ message_buffer' = KeptBuffer(read, rewritten)
                     /\ read_pc' = CASE result.kind = "ok" -> "message"
                                     [] result.kind = "incomplete" -> "read"
                                     [] OTHER -> "parse error"
                     /\ parsed_message' = result.message

\* connection.read returns 0 bytes or an error: handle_connection returns.
ReadNothing ==
    /\ read_pc = "read"
    /\ \E outcome \in {"eof", "io error"} :
         /\ outcome = "eof" => wire = <<>>
         /\ read_pc' = outcome
    /\ UNCHANGED <<wire, received, read_sizes, message_buffer, parsed_message>>

\* handle_connection is called: message_buffer = String::new().
ReadInit ==
    /\ wire = <<>>
    /\ received = <<>>
    /\ read_sizes = <<>>
    /\ message_buffer = <<>>
    /\ parsed_message = <<>>
    /\ read_pc = "idle"

\* RtspServer::new: no connection accepted yet.
RtspInit ==
    /\ conn = NoConnection
    /\ accepted = 0
    /\ play_ok = {}

\* The registry starts with no pending and no paired client, no handler runs.
PairInit ==
    /\ pending = [u \in UniqueIds |-> None]
    /\ clients = {}
    /\ pair_waiting = {}
    /\ pin_notified = {}
    /\ pair_last = NoPairExchange
    /\ pair_count = 0

\* What the session manager and the video workers leave alone.
otherVars == <<rtspVars, pairVars, videoVars, readVars>>

\* SessionManager::new: an empty channel, SessionManagerInner::default()
\* and, in run, a fresh ShutdownManager.
Init ==
    /\ command_queue = <<>>
    /\ handles_open = TRUE
    /\ manager_alive = TRUE
    /\ shutdown_token_held = TRUE
    /\ session = None
    /\ video_stream_context = None
    /\ audio_stream_context = None
    /\ stop_signal = 0
    /\ triggered = FALSE
    /\ workers = {}
    /\ sessions = {}
    /\ sent = 0
    /\ reply = None
    /\ lastCmd = NoCommand
    /\ lastOutcome = "ok"
    /\ created_ctx = <<>>
    /\ triggered_by = 0
    /\ failed = {}
    /\ context_session = 0
    /\ RtspInit
    /\ PairInit
    /\ VideoInit
    /\ ReadInit

Next ==
    \/ (\E command \in Commands(sent + 1) : Send(command)) /\ UNCHANGED otherVars
    \/ (DropHandles) /\ UNCHANGED otherVars
    \/ (HandleSetStreamContext) /\ UNCHANGED otherVars
    \/ (HandleGetSessionContext) /\ UNCHANGED otherVars
    \/ (HandleInitializeSession) /\ UNCHANGED otherVars
    \/ (HandleStartSession) /\ UNCHANGED otherVars
    \/ (HandleStopSession) /\ UNCHANGED otherVars
    \/ (HandleUpdateKeys) /\ UNCHANGED otherVars
    \/ (ShutdownTriggered) /\ UNCHANGED otherVars
    \/ (ChannelClosed) /\ UNCHANGED otherVars
    \/ (\E w \in workers : VideoBindOk(w)) /\ UNCHANGED otherVars
    \/ (\E w \in workers : VideoBindError(w)) /\ UNCHANGED otherVars
    \/ (\E w \in workers : VideoStartOk(w)) /\ UNCHANGED otherVars
    \/ (\E w \in workers : VideoStartError(w)) /\ UNCHANGED otherVars
    \/ (\E w \in workers : VideoChannelClosed(w)) /\ UNCHANGED otherVars
    \/ (\E w \in workers : VideoCancelled(w)) /\ UNCHANGED otherVars
    \/ (ControlTermination) /\ UNCHANGED otherVars

Spec == Init /\ [][Next]_vars

\* tokio::select! polls its ready branches in random order, so a shutdown
\* signal that stays triggered is eventually taken by the manager.
FairSpec == Spec /\ WF_vars(ShutdownTriggered /\ UNCHANGED otherVars)

\* The RTSP server with the session manager behind it: the web server
\* launches and stops sessions (InitializeSession, StopSession), clients
\* send the requests of a streaming session.
NextRtsp ==
    \/ RtspAccept
    \/ RtspReadNothing
    \/ RtspRead(SessionMessages)
    \/ RtspHandle
    \/ RtspWrite
    \/ RtspShutdown
    \/ (\E context \in SessionContexts :
          Send(Command("InitializeSession", sent + 1, "-", "-", context, "-")))
       /\ UNCHANGED otherVars
    \/ Send(Command("StopSession", sent + 1, "-", "-", "-", "-"))
       /\ UNCHANGED otherVars
    \/ HandleSetStreamContext /\ UNCHANGED otherVars
    \/ HandleInitializeSession /\ UNCHANGED otherVars
    \/ HandleStartSession /\ UNCHANGED otherVars
    \/ HandleStopSession /\ UNCHANGED otherVars

SpecRtsp == Init /\ [][NextRtsp]_vars

\* The RTSP server answering every message; no session is launched, the
\* manager takes the commands out of the channel.
NextRtspMessages ==
    \/ RtspAccept
    \/ RtspReadNothing
    \/ RtspRead(Messages)
    \/ RtspHandle
    \/ RtspWrite
    \/ RtspShutdown
    \/ HandleSetStreamContext /\ UNCHANGED otherVars
    \/ HandleStartSession /\ UNCHANGED otherVars

SpecRtspMessages == Init /\ [][NextRtspMessages]_vars

\* The pairing front end with the client registry and the operator.
SpecPair == Init /\ [][NextPair]_vars

\* A get_server_cert handler whose PIN wait is over is scheduled and
\* returns; nothing obliges the operator to post a PIN.
FairSpecPair ==
    SpecPair /\ WF_vars(\E handler \in pair_waiting : GetServerCertReturn(handler))

\* What the video worker leaves alone.
notVideoVars == <<coreVars, rtspVars, pairVars, readVars>>

\* One video worker with its callers, its threads and its socket task; the
\* client reveals its address with a PING.
NextVideo ==
    \/ (\E command \in VideoStreamCommands : VideoSend(command))
       /\ UNCHANGED notVideoVars
    \/ VideoDropHandles /\ UNCHANGED notVideoVars
    \/ StopSignalTriggered /\ UNCHANGED notVideoVars
    \/ RunBind /\ UNCHANGED notVideoVars
    \/ RunStart /\ UNCHANGED notVideoVars
    \/ RunRequestIdrFrame /\ UNCHANGED notVideoVars
    \/ RunChannelClosed /\ UNCHANGED notVideoVars
    \/ RunCancelled /\ UNCHANGED notVideoVars
    \/ CaptureStops /\ UNCHANGED notVideoVars
    \/ EncodeFrame /\ UNCHANGED notVideoVars
    \/ EncoderSendResumes /\ UNCHANGED notVideoVars
    \/ EncodeStops /\ UNCHANGED notVideoVars
    \/ SocketDequeue /\ UNCHANGED notVideoVars
    \/ SocketClosed /\ UNCHANGED notVideoVars
    \/ SocketReceive(Datagram("a1", Ping)) /\ UNCHANGED notVideoVars
    \/ SocketReceiveError /\ UNCHANGED notVideoVars

SpecVideo == Init /\ [][NextVideo]_vars

\* The socket task of a started video worker with the encoder in front of
\* it and the datagrams of every client behind it.
NextVideoSocket ==
    \/ VideoSend("Start") /\ UNCHANGED notVideoVars
    \/ StopSignalTriggered /\ UNCHANGED notVideoVars
    \/ RunBind /\ UNCHANGED notVideoVars
    \/ RunStart /\ UNCHANGED notVideoVars
    \/ RunCancelled /\ UNCHANGED notVideoVars
    \/ EncodeFrame /\ UNCHANGED notVideoVars
    \/ EncoderSendResumes /\ UNCHANGED notVideoVars
    \/ EncodeStops /\ UNCHANGED notVideoVars
    \/ SocketDequeue /\ UNCHANGED notVideoVars
    \/ SocketClosed /\ UNCHANGED notVideoVars
    \/ (\E from \in Addresses, payload \in Payloads :
          SocketReceive(Datagram(from, payload)))
       /\ UNCHANGED notVideoVars
    \/ SocketReceiveError /\ UNCHANGED notVideoVars

SpecVideoSocket == Init /\ [][NextVideoSocket]_vars

\* The tasks are scheduled and the threads run: a cancelled run is dropped,
\* the threads notice the stop_signal, a send that can complete does, and
\* the socket task takes what its select has ready.
FairSpecVideo ==
    /\ SpecVideo
    /\ WF_vars(RunCancelled /\ UNCHANGED notVideoVars)
    /\ WF_vars(CaptureStops /\ UNCHANGED notVideoVars)
    /\ WF_vars(EncodeStops /\ UNCHANGED notVideoVars)
    /\ WF_vars(EncoderSendResumes /\ UNCHANGED notVideoVars)
    /\ WF_vars(SocketDequeue /\ UNCHANGED notVideoVars)
    /\ WF_vars(SocketClosed /\ UNCHANGED notVideoVars)

\* What the read loop leaves alone.
notReadVars == <<coreVars, rtspVars, pairVars, videoVars>>

\* The read loop of one connection, the request arriving in any pieces.
NextRead ==
    \/ (\E text \in Texts : ReadConnect(text)) /\ UNCHANGED notReadVars
    \/ ReadTurn /\ UNCHANGED notReadVars
    \/ ReadNothing /\ UNCHANGED notReadVars

SpecRead == Init /\ [][NextRead]_vars

\* ------------------------------------------------------------------ properties

\* Absent, Created or Running: the state of the manager's session.
SessionState ==
    IF session = None THEN "Absent"
    ELSE IF Unwrap(session).running THEN "Running" ELSE "Created"

\* This step is the manager processing a command of the given type.
Handled(type) == lastCmd' # lastCmd /\ lastCmd'.type = type

\* This step is the shutdown branch of the manager's select.
ShutdownHandled == stop_signal' # stop_signal

\* The context the InitializeSession that created the current session gave.
CreatorContext == created_ctx[Unwrap(session).id]

\* C1: in every reachable state at most one Session object exists, and it
\* is the one the manager holds in self.session.
C1_AtMostOneSession ==
    /\ Cardinality(sessions) <= 1
    /\ sessions = (IF session = None THEN {} ELSE {Unwrap(session).id})

\* C1 witness: a second InitializeSession was processed while a session
\* existed, and one session exists.
C1_Witness ==
    /\ lastCmd.type = "InitializeSession"
    /\ lastOutcome = "warn"
    /\ Len(created_ctx) = 1
    /\ Cardinality(sessions) = 1

\* C2: the session state moves only Absent -> Created (InitializeSession),
\* Created -> Running (StartSession) and anything -> Absent (StopSession,
\* the shutdown signal, or the manager task ending); the session is never
\* replaced by another one in place, and a StartSession processed while
\* Running changes nothing.
C2_SessionStateMachine ==
    [][
        /\ (SessionState = "Absent" /\ SessionState' # "Absent")
              => (SessionState' = "Created" /\ Handled("InitializeSession"))
        /\ (SessionState = "Created" /\ SessionState' = "Running")
              => Handled("StartSession")
        /\ SessionState = "Running" => SessionState' \in {"Running", "Absent"}
        /\ (SessionState # "Absent" /\ SessionState' # "Absent")
              => Unwrap(session').id = Unwrap(session).id
        /\ (SessionState # "Absent" /\ SessionState' = "Absent")
              => (Handled("StopSession") \/ ShutdownHandled \/ ~manager_alive')
        /\ (Handled("StartSession") /\ SessionState = "Running")
              => UNCHANGED managerState
    ]_vars

\* C2 witness: a StartSession was processed, and rejected, while the
\* session was running.
C2_Witness ==
    /\ lastCmd.type = "StartSession"
    /\ lastOutcome = "warn"
    /\ SessionState = "Running"

\* The preconditions of StartSession.
StartSessionAllowed ==
    /\ IsSome(session)
    /\ ~Unwrap(session).running
    /\ IsSome(video_stream_context)
    /\ IsSome(audio_stream_context)

\* C3: StartSession makes the session running (and spawns a worker) only
\* when a session exists, is not running, and both stream contexts are
\* present; otherwise the session, the running state, the stream contexts
\* and the workers are unchanged.
C3_StartSessionPreconditions ==
    [][
        Handled("StartSession") =>
            /\ (SessionState' = "Running" /\ SessionState # "Running")
                  => StartSessionAllowed
            /\ workers' # workers => StartSessionAllowed
            /\ ~StartSessionAllowed
                  => UNCHANGED <<session, video_stream_context,
                                 audio_stream_context, workers>>
            /\ UNCHANGED <<video_stream_context, audio_stream_context>>
    ]_vars

\* C3 witness: a StartSession was processed and started the stream.
C3_Witness ==
    /\ lastCmd.type = "StartSession"
    /\ lastOutcome = "ok"
    /\ SessionState = "Running"
    /\ \E w \in workers : w.sid = Unwrap(session).id

\* C4: an InitializeSession processed while a session is active changes
\* neither the session (context, running state) nor the stream contexts,
\* and a GetSessionContext processed right after it, the session still
\* being there, is answered with the context of the original session.
C4_InitializeSessionDropped ==
    [][
        /\ (Handled("InitializeSession") /\ IsSome(session))
              => /\ UNCHANGED <<session, video_stream_context,
                                audio_stream_context, workers, sessions>>
                 /\ lastOutcome' = "warn"
        /\ (/\ Handled("GetSessionContext")
            /\ lastCmd.type = "InitializeSession"
            /\ lastOutcome = "warn"
            /\ IsSome(session))
              => reply' = Some(CreatorContext)
    ]_vars

\* C4 witness: an InitializeSession(c2) was dropped, the session created
\* with c1 is still there, and a GetSessionContext is next in the channel.
C4_Witness ==
    /\ lastCmd.type = "InitializeSession"
    /\ lastCmd.context = "c2"
    /\ lastOutcome = "warn"
    /\ IsSome(session)
    /\ SessionGetContext(Unwrap(session)) = "c1"
    /\ command_queue # <<>>
    /\ Head(command_queue).type = "GetSessionContext"

\* C5: a SetStreamContext processed while no session exists leaves the
\* stored stream contexts as they were; processed while a session exists
\* it replaces both by the given values.
C5_SetStreamContext ==
    [][
        Handled("SetStreamContext") =>
            IF session = None
            THEN UNCHANGED <<video_stream_context, audio_stream_context>>
            ELSE /\ video_stream_context' = Some(lastCmd'.video)
                 /\ audio_stream_context' = Some(lastCmd'.audio)
    ]_vars

\* C5 witness: a SetStreamContext with other values was rejected with no
\* session, and the contexts stored earlier are still there.
C5_Witness ==
    /\ lastCmd.type = "SetStreamContext"
    /\ lastOutcome = "warn"
    /\ IsSome(video_stream_context)
    /\ Unwrap(video_stream_context) # lastCmd.video
    /\ Unwrap(audio_stream_context) # lastCmd.audio

C7_FifoSnapshot ==
    [][
        lastCmd' # lastCmd =>
            /\ lastCmd'.seq = lastCmd.seq + 1
            /\ Len(command_queue') = Len(command_queue) - 1
            /\ \A i \in 1..Len(command_queue') :
                  command_queue'[i].seq = lastCmd'.seq + i
            /\ lastCmd'.type = "GetSessionContext"
                  => reply' = (IF session = None THEN None
                               ELSE Some(CreatorContext))
            /\ lastCmd'.type # "GetSessionContext" => reply' = reply
    ]_vars

\* C7 witness: with another command pending behind it, a GetSessionContext
\* was answered with the context of the second session.
C7_Witness ==
    /\ lastCmd.type = "GetSessionContext"
    /\ reply = Some("c2")
    /\ created_ctx = <<"c1", "c2">>
    /\ command_queue # <<>>

\* C8: the shutdown branch removes a session only when the trigger came
\* from that session itself, never from a worker of an earlier session.
C8_NewSessionSurvivesOldWorkers ==
    [][
        (ShutdownHandled /\ IsSome(session))
            => triggered_by = Unwrap(session).id
    ]_vars

\* C9: whenever processing a command ends in an error, the manager's
\* shutdown signal is triggered.
C9_ErrorTriggersShutdown ==
    [][
        (lastCmd' # lastCmd /\ lastOutcome' = "err") => triggered'
    ]_vars

\* C10: when the video worker of the current session ends with a resource
\* error the manager eventually has no session; the worker's end leaves
\* the manager task running, and the manager task ends, dropping the
\* process-wide shutdown token, only when every handle is dropped and the
\* channel is drained.
C10_ResourceErrorTearsDownSession ==
    /\ [](~manager_alive => (~handles_open /\ command_queue = <<>>))
    /\ [](shutdown_token_held <=> manager_alive)
    /\ [][failed' # failed
            => (triggered' /\ UNCHANGED <<manager_alive, shutdown_token_held,
                                          command_queue, session>>)]_vars
    /\ (IsSome(session) /\ Unwrap(session).id \in failed) ~> (session = None)

\* C10 witness: after the worker of the first session failed, the manager
\* is alive and has accepted the InitializeSession of a second session.
C10_Witness ==
    /\ 1 \in failed
    /\ manager_alive
    /\ IsSome(session)
    /\ Unwrap(session).id = 2
    /\ lastCmd.type = "InitializeSession"

\* ------------------------------------------------------- RTSP properties

\* The step in which handle_connection handles the message it parsed.
RtspHandled == conn.pc = "handle" /\ conn'.pc # "handle"

\* The connection's peer is not the permitted client of the session at hand.
ForeignPeer ==
    /\ IsSome(session)
    /\ conn.peer # PermittedAddress(SessionGetContext(Unwrap(session)))

\* C11: a request from a peer other than the permitted client address of
\* the active session's context never makes the RTSP server send a command
\* (SetStreamContext or StartSession) to the session manager.
C11_ForeignPeerSendsNothing ==
    [][(RtspHandled /\ ForeignPeer) => sent' = sent]_vars

\* C12: a PLAY is answered 200 only if its StartSession makes the session
\* Running: whenever the manager has processed the StartSession of a PLAY
\* answered 200, start_stream was called and succeeded.
C12_PlayOkMeansRunning ==
    lastCmd.seq \in play_ok => lastOutcome = "ok"

\* The ANNOUNCE bodies of C13: one required attribute is absent, has no
\* value, or has a value that is not a number of its type.
BadAttributeBodies ==
    {SdpWith(GoodSdp, a, Absent) : a \in Attributes}
    \cup {SdpWith(GoodSdp, a, NoValue) : a \in Attributes}
    \cup {SdpWith(GoodSdp, a, Value(v)) :
            a \in NumericAttributes, v \in UnparseableValues}

IsAnnounce(message) == message.kind = "request" /\ message.method = "ANNOUNCE"

\* C13: an ANNOUNCE whose body lacks one of the nine required attributes,
\* or has an unparseable value for one, is answered 400, sends no command to
\* the session manager and leaves the stored stream contexts as they were.
C13_BadAttributeRejected ==
    [][(RtspHandled /\ IsAnnounce(conn.message)
          /\ conn.message.body \in BadAttributeBodies
          /\ conn.message.cseq = Some(<<"1">>))
       => /\ conn'.pc = "write"
          /\ conn'.response.status = 400
          /\ sent' = sent
          /\ Len(command_queue') = Len(command_queue)
          /\ video_stream_context' = video_stream_context
          /\ audio_stream_context' = audio_stream_context]_vars

\* Each kind of bad attribute is answered: the last attribute read absent,
\* the first one unparseable.
C13_Witness ==
    /\ conn.pc = "write"
    /\ IsAnnounce(conn.message)
    /\ conn.message.body \in
         {SdpWith(GoodSdp, "x-nv-aqos.qosTrafficType", Absent),
          SdpWith(GoodSdp, "x-nv-video[0].clientViewportWd", Value(<<"-", "1">>))}
    /\ conn.response.status = 400
    /\ accepted = MaxConns
    /\ sent > 0

\* The ANNOUNCE bodies of C14: a packet size of 0, and one larger than any
\* datagram.
BadPacketSizes == {0, 65536}

BadPacketSizeBodies ==
    {SdpWith(GoodSdp, "x-nv-video[0].packetSize", Value(v)) :
        v \in {<<"0">>, <<"6", "5", "5", "3", "6">>}}

\* C14: an ANNOUNCE with a packet size of 0 or above the MTU-safe maximum is
\* answered 400, and the session manager never stores such a packet size.
C14_BadPacketSizeRejected ==
    /\ (conn.pc = "write" /\ IsAnnounce(conn.message)
          /\ conn.message.body \in BadPacketSizeBodies)
       => conn.response.status = 400
    /\ IsSome(video_stream_context)
       => Unwrap(video_stream_context).packet_size \notin BadPacketSizes

\* C15: every response to a request carries the CSeq of that request: the
\* request's CSeq header is a number and the response's CSeq header is the
\* same number, whatever the method and the status.
C15_ResponseCarriesCSeq ==
    (conn.pc \in {"write", "shutdown"} /\ conn.message.kind = "request")
    => /\ IsSome(conn.message.cseq)
       /\ ParseI32(Unwrap(conn.message.cseq)).ok
       /\ ParseI32(conn.response.cseq) = ParseI32(Unwrap(conn.message.cseq))
       /\ conn.response.status \in {200, 400, 500}

\* An unsupported method with the CSeq "007" is answered 400 with CSeq 7.
C15_Witness ==
    /\ conn.pc = "write"
    /\ conn.message = Request("TEARDOWN", Some(<<"0", "0", "7">>))
    /\ conn.response.status = 400
    /\ conn.response.cseq = <<"7">>

\* C16: a connection has at most one message parsed and one response
\* written; once the response is written the handler only shuts the
\* connection down and drops it, it never reads again.
C16_OneRequestPerConnection ==
    /\ conn.parsed <= 1
    /\ conn.written <= conn.parsed
    /\ conn.written = 1 => conn.pc \in {"shutdown", "closed"}
    /\ (conn.written = 1 /\ conn.pc = "closed")
       => conn.end \in {"shutdown", "error"}
    /\ conn.pc = "read" => conn.parsed = 0

\* The second connection answered its request and was shut down.
C16_Witness ==
    /\ accepted = MaxConns
    /\ conn.pc = "closed"
    /\ conn.parsed = 1
    /\ conn.written = 1
    /\ conn.end = "shutdown"

IsSetup(message) == message.kind = "request" /\ message.method = "SETUP"

StreamKinds == {"video", "audio", "control"}

\* The port the configuration gives a stream kind.
ConfiguredPort(kind) ==
    CASE kind = "video" -> VideoPort
      [] kind = "audio" -> AudioPort
      [] kind = "control" -> ControlPort

\* The query the client wrote is streamid=<kind>/... with a known kind.
StreamIdQuery(message) ==
    /\ Len(message.target.query) > 0
    /\ message.target.query[1].key = "streamid"
    /\ message.target.query[1].segments[1] \in StreamKinds

\* The SETUP requests answered 200: the target is the bare
\* "streamid=<kind>/..." and the first transport of the Transport header
\* is not an RTP transport.
SetupAnswerable(message) ==
    /\ StreamIdQuery(message)
    /\ message.target.form = "bare"
    /\ message.transports.state = "parsed"
    /\ Len(message.transports.list) > 0
    /\ message.transports.list[1] = "other"

\* What SETUP leaves alone: the channel and the manager's state.
SetupSendsNothing ==
    /\ sent' = sent
    /\ Len(command_queue') = Len(command_queue)
    /\ session' = session
    /\ video_stream_context' = video_stream_context
    /\ audio_stream_context' = audio_stream_context

PairHandled == pair_count' = pair_count + 1

\* The registry is as it was: no PendingClient, client, waiting handler or
\* notification was added or removed.
RegistryUntouched ==
    /\ pending' = pending
    /\ clients' = clients
    /\ pair_waiting' = pair_waiting
    /\ pin_notified' = pin_notified

\* The registry operation of the step a request with good values is for:
\* the phrase decides first, then clientchallenge, serverchallengeresp and
\* clientpairingsecret in this order.
ExpectedOperation(params) ==
    IF params.phrase = Some("getservercert") THEN "start_pairing"
    ELSE IF params.phrase = Some("pairchallenge") THEN "add_client"
    ELSE IF IsSome(params.phrase) THEN "-"
    ELSE IF "clientchallenge" \in params.keys THEN "client_challenge"
    ELSE IF "serverchallengeresp" \in params.keys THEN "server_challenge_response"
    ELSE IF "clientpairingsecret" \in params.keys THEN "client_pairing_secret"
    ELSE "-"

\* C18: a pair request goes to the step of its phrase, and without a phrase
\* to the step of the first of clientchallenge, serverchallengeresp and
\* clientpairingsecret it carries; an unknown phrase is answered 400 with
\* 'Unknown pair phrase received: <phrase>' whatever else the request
\* carries, a request with no recognised parameter is answered 400, and
\* neither touches the client registry.
C18_PairDispatch ==
    [][PairHandled =>
         LET params == pair_last'.request IN
         /\ (params.fields = "ok" /\ IsSome(params.uniqueid))
            => pair_last'.op = ExpectedOperation(params)
         /\ (IsSome(params.phrase)
               /\ Unwrap(params.phrase) \notin {"getservercert", "pairchallenge"})
            => /\ pair_last'.response =
                    HttpResponse(400, <<"Unknown pair phrase received: ",
                                        Unwrap(params.phrase)>>)
               /\ pair_last'.op = "-"
               /\ RegistryUntouched
         /\ (params.phrase = None /\ params.keys = {})
            => /\ pair_last'.response.status = 400
               /\ pair_last'.op = "-"
               /\ RegistryUntouched]_vars

\* An unknown phrase that also carries clientchallenge, for a unique_id
\* that has a PendingClient, was answered 400.
C18_Witness ==
    /\ pair_last.request =
         Params(Some("bogus"), {"clientchallenge"}, Some("u1"), "ok")
    /\ pair_last.response =
         HttpResponse(400, <<"Unknown pair phrase received: ", "bogus">>)
    /\ IsSome(pending["u1"])

\* The response that carries the server certificate.
ServerCertResponse == HttpResponse(200, <<"paired=1", "plaincert">>)

\* C19: get_server_cert answers with the server certificate only in the
\* step that ends its PIN wait, and a PIN wait only ends for a handler whose
\* PIN notifier (the one of the PendingClient it registered) was notified.
C19_CertAfterPin ==
    [][/\ \A handler \in pair_waiting \ pair_waiting' :
             handler.pin_notify \in pin_notified
       /\ (pair_last' # pair_last /\ pair_last'.response = ServerCertResponse)
          => \E handler \in pair_waiting \ pair_waiting' :
               /\ handler.request = pair_last'.request
               /\ handler.pin_notify \in pin_notified]_vars

\* A handler returned the certificate while another one is still waiting.
C19_Witness ==
    /\ pair_last.response = ServerCertResponse
    /\ pair_last.request.uniqueid = Some("u1")
    /\ \E handler \in pair_waiting : handler.pin_notify \notin pin_notified

\* C20: the PIN wait of get_server_cert is bounded: a handler waiting for a
\* PIN eventually returns, whether or not the PIN is posted.
C20_PinWaitBounded == (pair_waiting # {}) ~> (pair_waiting = {})

\* The registry operations whose failure the handlers report.
RegistryOperations ==
    {"start_pairing", "client_challenge", "server_challenge_response",
     "client_pairing_secret"}

\* The response of a failed step that is not a parsing failure.
NotPairedResponse == HttpResponse(200, <<"paired=0", "">>)

\* C21: a step the client registry rejects is answered with status 200 and
\* paired=0; status 400 is the answer only of a request whose parameters
\* could not be parsed, before any registry operation was called.
C21_RegistryFailureIsNotPaired ==
    [][PairHandled =>
         /\ pair_last'.response.status = 400 => pair_last'.op = "-"
         /\ (pair_last'.op \in RegistryOperations
               /\ pair_last'.response \notin
                    {NoHttpResponse, HttpResponse(200, <<"paired=1", "">>)})
            => pair_last'.response = NotPairedResponse]_vars

\* The steps 2, 3 and 5 of the handshake.
LaterSteps ==
    {"client_challenge", "server_challenge_response", "client_pairing_secret"}

\* C22: in steps 2, 3 and 5 every failure (a missing parameter, a value
\* that is not hex, a rejection by the registry) of a request that names a
\* unique_id leaves that unique_id without PendingClient.
C22_FailureDropsPendingClient ==
    [][(PairHandled
          /\ Dispatch(pair_last'.request) \in LaterSteps
          /\ IsSome(pair_last'.request.uniqueid)
          /\ pair_last'.response.status # 200)
         => pending'[Unwrap(pair_last'.request.uniqueid)] = None]_vars

\* The handlers of get_server_cert waiting for the PIN of a unique_id.
WaitingFor(id) == {handler \in pair_waiting : handler.id = id}

\* The handlers waiting on the notifier of the PendingClient of a unique_id.
WaitingOnPending(id) ==
    {handler \in pair_waiting :
        /\ IsSome(pending[id])
        /\ handler.pin_notify = Unwrap(pending[id]).pin_notify}

\* A getservercert with good values for a unique_id that has a
\* PendingClient is handled.
SecondGetServerCert ==
    /\ PairHandled
    /\ Dispatch(pair_last'.request) = "get_server_cert"
    /\ pair_last'.op = "start_pairing"
    /\ IsSome(pending[Unwrap(pair_last'.request.uniqueid)])

\* C23 as stated: at every instant at most one get_server_cert handler is
\* waiting for the PIN of a unique_id.
C23_OneWaitingHandlerPerId ==
    \A id \in UniqueIds : Cardinality(WaitingFor(id)) <= 1

\* C23: a getservercert for a unique_id that has a PendingClient is answered
\* with an error at once, without waiting and without replacing the
\* PendingClient or adding a waiting handler; at most one handler waits on
\* the notifier of the PendingClient a unique_id has.
C23_StartPairingExclusive ==
    [][/\ SecondGetServerCert
          => /\ pair_last'.response.status = 400
             /\ RegistryUntouched
       /\ \A id \in UniqueIds :
            Cardinality({handler \in pair_waiting' :
                           /\ IsSome(pending'[id])
                           /\ handler.pin_notify = Unwrap(pending'[id]).pin_notify})
              <= 1]_vars

\* A second getservercert for u1 was rejected while the handler of the
\* first one waits on the notifier of the PendingClient of u1.
C23_Witness ==
    /\ pair_last.request.phrase = Some("getservercert")
    /\ pair_last.request.uniqueid = Some("u1")
    /\ pair_last.op = "start_pairing"
    /\ pair_last.response.status = 400
    /\ Cardinality(WaitingOnPending("u1")) = 1

\* C30: pair_challenge answers paired=1 only for a unique_id that had a
\* PendingClient which went through the earlier steps and which add_client
\* made a client.
C30_PairedOnlyAfterPromotion ==
    [][(PairHandled
          /\ Dispatch(pair_last'.request) = "pair_challenge"
          /\ pair_last'.response = HttpResponse(200, <<"paired=1", "">>))
         => LET id == Unwrap(pair_last'.request.uniqueid) IN
            /\ IsSome(pending[id])
            /\ Unwrap(pending[id]).step = 3
            /\ id \in clients']_vars

\* ------------------------------------------------- video worker properties

\* Every part of the video worker has ended and its UDP port is free.
VideoTerminated ==
    /\ run_pc \notin {"bind", "loop"}
    /\ capture_threads = 0
    /\ encode_threads = 0
    /\ PortFree

\* C24: once the session's shutdown signal is triggered, eventually the
\* command loop is gone, the capture and encode threads have stopped and the
\* socket task has ended and released the UDP socket.
C24_ShutdownEndsWorker == stop_triggered ~> VideoTerminated

\* A worker that was streaming to a client was cancelled, its threads have
\* stopped and its socket task has ended after the packet channel closed.
C24_Witness ==
    /\ VideoTerminated
    /\ run_pc = "cancelled"
    /\ started_streaming
    /\ socket_task = "stopped"
    /\ last_sent # NoSentPacket
    /\ packets_made = MaxPackets

\* The step in which the socket task takes a packet out of the channel.
SocketDequeued ==
    /\ socket_task' = "running"
    /\ Len(packet_rx') = Len(packet_rx) - 1

\* C25: the client address is the source of the most recent datagram whose
\* payload is exactly PING (any other datagram leaves it as it was), a
\* packet taken out of the channel goes to that address, and is dropped
\* while no PING has arrived.
C25_PacketsFollowPing ==
    [][/\ client_address' =
            IF last_datagram' # last_datagram /\ last_datagram'.payload = Ping
            THEN Some(last_datagram'.from)
            ELSE client_address
       /\ SocketDequeued
            => last_sent' = IF client_address = None THEN last_sent
                            ELSE SentPacket(Head(packet_rx), Unwrap(client_address))
       /\ last_sent' # last_sent => SocketDequeued]_vars

\* After a PING from a2, a datagram from a1 that is not a PING arrived, and
\* the second packet went to a2.
C25_Witness ==
    /\ last_datagram = Datagram("a1", <<"P", "I", "N", "G", "!">>)
    /\ client_address = Some("a2")
    /\ last_sent = SentPacket(2, "a2")

\* The step in which the encoder has a new packet for the channel.
PacketOffered == packets_made' = packets_made + 1

\* C26: the packet channel never holds more packets than its capacity; a
\* packet offered while it is full takes the place of the oldest queued
\* one, so that the encoder neither waits nor loses the new packet; the
\* packets leave in the order they were enqueued.
C26_OverflowDropsOldest ==
    [][/\ Len(packet_rx') <= PacketCapacity
       /\ SocketDequeued => packet_rx' = Tail(packet_rx)
       /\ (PacketOffered /\ socket_task = "running")
            => /\ encoder_holding' = None
               /\ packet_rx' = IF Len(packet_rx) < PacketCapacity
                               THEN Append(packet_rx, packets_made')
                               ELSE Append(Tail(packet_rx), packets_made')]_vars

\* The step in which the command loop takes a RequestIdrFrame.
IdrProcessed ==
    /\ command_rx # <<>>
    /\ Head(command_rx) = "RequestIdrFrame"
    /\ command_rx' = Tail(command_rx)
    /\ run_pc' # "cancelled"

\* C27: processing a RequestIdrFrame never ends the command loop, and once
\* streaming has started it leaves a request pending for the encoder's
\* receiver, which the encoder sees before its next frame: that frame is an
\* IDR frame.
C27_IdrRequestReachesEncoder ==
    [][/\ IdrProcessed
            => /\ run_pc' = "loop"
               /\ idr_sent' = idr_sent + 1
               /\ (started_streaming /\ encode_threads > 0)
                    => IdrPending(idr_sent', idr_next')
       /\ (PacketOffered /\ IdrPending(idr_sent, idr_next))
            => /\ last_frame_idr'
               /\ ~IdrPending(idr_sent', idr_next')]_vars

\* Two requests were processed while streaming and the second frame was an
\* IDR frame.
C27_Witness ==
    /\ started_streaming
    /\ idr_sent = 2
    /\ idr_next = 2
    /\ packets_made = 2
    /\ last_frame_idr

\* -------------------------------------------------- stream context properties

\* C28: start_stream is only called with stream contexts that a
\* SetStreamContext stored while the session being started existed; the
\* contexts stored during an earlier session are not used for a later one.
C28_StartedWithOwnContexts ==
    [][(Handled("StartSession") /\ lastOutcome' \in {"ok", "err"})
         => context_session = Unwrap(session).id]_vars

\* C29: an ANNOUNCE is answered 200 only if the manager stores the announced
\* contexts: one that arrives while no session exists and no command that
\* could create one is pending is not answered 200.
C29_AnnounceOkMeansStored ==
    [][(RtspHandled /\ IsAnnounce(conn.message)
          /\ session = None /\ command_queue = <<>>)
         => conn'.response.status # 200]_vars

\* C31: one VideoStream never has more than one capture thread nor more
\* than one encode thread running, whatever Start commands it is sent: a
\* Start after a successful one is ignored, and a Start after one that
\* spawned the capture thread but not the encode thread does not add a
\* second capture thread.
C31_OneThreadOfEachKind ==
    /\ capture_threads <= 1
    /\ encode_threads <= 1

\* ------------------------------------------------------ read loop properties
\* The number of bytes read by the first `count` reads.
RECURSIVE BytesBefore(_)
BytesBefore(count) ==
    IF count = 0 THEN 0 ELSE BytesBefore(count - 1) + read_sizes[count]

\* A read ended inside an occurrence of `pattern` in the bytes read.
SplitInside(pattern) ==
    \E count \in 1..(Len(read_sizes) - 1) :
        \E at \in 1..Len(received) :
            /\ at + Len(pattern) - 1 <= Len(received)
            /\ SubSeq(received, at, at + Len(pattern) - 1) = pattern
            /\ at <= BytesBefore(count)
            /\ BytesBefore(count) < at + Len(pattern) - 1

\* C32: the message the read loop hands on is the message parsed from the
\* rewrite ("streamid", then "PLAY /") of all the bytes read, concatenated,
\* however many reads it took and wherever they ended: every occurrence is
\* rewritten once.
C32_RewriteOfAllBytesRead ==
    read_pc = "message" =>
        /\ Parse(Rewrite(received)).kind = "ok"
        /\ parsed_message = Parse(Rewrite(received)).message

\* A request parsed after reads that ended inside a "streamid" and inside a
\* "PLAY /".
C32_Witness ==
    /\ read_pc = "message"
    /\ Len(read_sizes) >= 2
    /\ SplitInside(StreamId)
    /\ SplitInside(PlaySlash)
    /\ parsed_message # received

====
